---- MODULE Spec2Model ----
(***************************************************************************)
(* A model of the OpenAPI document builder: the editing hook               *)
(* (useSwaggerDocument), the path-parameter synchroniser, the operation-id *)
(* generator, the legacy-format migration, the YAML serializer and the     *)
(* YAML importer.                                                          *)
(*                                                                         *)
(* Free text (titles, templates, names, ids) is a sequence of one-character*)
(* strings, so that splitting, scanning and suffixing are computed as the  *)
(* code computes them.  Enumerated tokens (methods, locations, types) are  *)
(* plain strings.  An optional field is a sequence of length 0 or 1.       *)
(***************************************************************************)
EXTENDS Integers, Sequences, FiniteSets, TLC

VARIABLES
    document,   \* the hook's state: what setDocument has produced so far
    rendered,   \* the document captured by the handlers of the last render
    last,       \* the last handler that ran, with its arguments
    calls,      \* how many handlers have run
    pc,         \* position of a pure-function run: "start" or "done"
    arg,        \* input of a pure-function run
    res         \* output of a pure-function run

hookVars == <<document, rendered, last, calls>>
pureVars == <<pc, arg, res>>
vars == <<document, rendered, last, calls, pc, arg, res>>

----------------------------------------------------------------------------
(* Bounds of the model                                                     *)

MaxParams == 3
MaxPathLen == 4

----------------------------------------------------------------------------
(* Generic helpers                                                         *)

None == <<>>
Some(x) == <<x>>

RECURSIVE SeqsUpTo(_, _)
SeqsUpTo(S, n) ==
    IF n = 0 THEN {<<>>}
    ELSE LET shorter == SeqsUpTo(S, n - 1)
         IN shorter \cup {Append(s, x) : s \in {t \in shorter : Len(t) = n - 1}, x \in S}

Range(s) == {s[i] : i \in DOMAIN s}

\* Array.prototype.includes
Includes(s, x) == \E i \in DOMAIN s : s[i] = x

\* Array.prototype.map over a sequence
SeqMap(F(_), s) == [i \in DOMAIN s |-> F(s[i])]

RECURSIVE Concat(_)
Concat(ss) == IF ss = <<>> THEN <<>> ELSE Head(ss) \o Concat(Tail(ss))

\* String.prototype.split on a one-character separator
RECURSIVE Split(_, _)
Split(s, sep) ==
    IF \A i \in DOMAIN s : s[i] # sep THEN <<s>>
    ELSE LET i == CHOOSE i \in DOMAIN s : s[i] = sep /\ \A k \in 1..(i - 1) : s[k] # sep
         IN <<SubSeq(s, 1, i - 1)>> \o Split(SubSeq(s, i + 1, Len(s)), sep)

LowerCase == <<"a","b","c","d","e","f","g","h","i","j","k","l","m",
               "n","o","p","q","r","s","t","u","v","w","x","y","z">>
UpperCase == <<"A","B","C","D","E","F","G","H","I","J","K","L","M",
               "N","O","P","Q","R","S","T","U","V","W","X","Y","Z">>

\* String.prototype.toUpperCase on one character
ToUpper(c) ==
    IF \E i \in DOMAIN LowerCase : LowerCase[i] = c
    THEN UpperCase[CHOOSE i \in DOMAIN LowerCase : LowerCase[i] = c]
    ELSE c

----------------------------------------------------------------------------
(* constants/httpMethods.ts and the method names as text                   *)

HTTP_METHODS == <<"get", "post", "put", "delete", "patch">>

MethodText(m) ==
    CASE m = "get" -> <<"g","e","t">>
      [] m = "post" -> <<"p","o","s","t">>
      [] m = "put" -> <<"p","u","t">>
      [] m = "delete" -> <<"d","e","l","e","t","e">>
      [] m = "patch" -> <<"p","a","t","c","h">>
      [] m = "options" -> <<"o","p","t","i","o","n","s">>
      [] m = "head" -> <<"h","e","a","d">>
      [] m = "trace" -> <<"t","r","a","c","e">>

----------------------------------------------------------------------------
(* utils/operationIdGenerator.ts                                           *)

\* word.charAt(0).toUpperCase() + word.slice(1)
Capitalize(word) ==
    IF word = <<>> THEN <<>> ELSE <<ToUpper(word[1])>> \o Tail(word)

\* Mutant: takes the first remaining segment instead of the last one.
generateOperationId_first(method, pathStr) ==
    LET pathParts == SelectSeq(Split(pathStr, "/"), LAMBDA p : p # <<>> /\ p[1] # "{")
        lastPart == IF pathParts = <<>> THEN <<>> ELSE pathParts[1]
    IN MethodText(method) \o Concat(SeqMap(Capitalize, Split(lastPart, "-")))

generateOperationId(method, pathStr) ==
    LET pathParts == SelectSeq(Split(pathStr, "/"), LAMBDA p : p # <<>> /\ p[1] # "{")
        lastPart == IF pathParts = <<>> THEN <<>> ELSE pathParts[Len(pathParts)]
        formattedPart == Concat(SeqMap(Capitalize, Split(lastPart, "-")))
    IN MethodText(method) \o formattedPart

----------------------------------------------------------------------------
(* utils/pathParameterParser.ts                                            *)

\* The regular expression /\{([^}]+)\}/g, matched from position i on.
RECURSIVE ExtractFrom(_, _)
ExtractFrom(path, i) ==
    IF i > Len(path) THEN <<>>
    ELSE IF /\ path[i] = "{"
            /\ i + 1 <= Len(path)
            /\ path[i + 1] # "}"
            /\ \E j \in (i + 2)..Len(path) : path[j] = "}"
         THEN LET j == CHOOSE j \in (i + 2)..Len(path) :
                           path[j] = "}" /\ \A k \in (i + 2)..(j - 1) : path[k] # "}"
              IN <<SubSeq(path, i + 1, j - 1)>> \o ExtractFrom(path, j + 1)
         ELSE ExtractFrom(path, i + 1)

extractPathParameters(path) == ExtractFrom(path, 1)

\* The parameter a new placeholder gets.
FreshPathParam(name) ==
    [name |-> name, in |-> "path", description |-> <<>>, required |-> TRUE,
     type |-> "string", format |-> None]

\* Array.prototype.find by name; the caller guarantees a match
FindByName(params, name) ==
    params[CHOOSE i \in DOMAIN params :
               params[i].name = name /\ \A k \in 1..(i - 1) : params[k].name # name]

\* Mutant: keeps the stored order of the surviving path parameters and appends
\* the new ones, instead of following the template's order.
syncPathParameters_storedOrder(currentParams, pathString) ==
    LET detectedParamNames == extractPathParameters(pathString)
        existingPathParams ==
            SelectSeq(currentParams,
                      LAMBDA p : p.in = "path" /\ Includes(detectedParamNames, p.name))
        nonPathParams == SelectSeq(currentParams, LAMBDA p : p.in # "path")
        existingPathParamNames == SeqMap(LAMBDA p : p.name, existingPathParams)
        newPathParams ==
            SeqMap(FreshPathParam,
                   SelectSeq(detectedParamNames,
                             LAMBDA n : ~Includes(existingPathParamNames, n)))
    IN existingPathParams \o newPathParams \o nonPathParams

syncPathParameters(currentParams, pathString) ==
    LET detectedParamNames == extractPathParameters(pathString)
        existingPathParams ==
            SelectSeq(currentParams,
                      LAMBDA p : p.in = "path" /\ Includes(detectedParamNames, p.name))
        nonPathParams == SelectSeq(currentParams, LAMBDA p : p.in # "path")
        existingPathParamNames == SeqMap(LAMBDA p : p.name, existingPathParams)
        newPathParams ==
            SeqMap(FreshPathParam,
                   SelectSeq(detectedParamNames,
                             LAMBDA n : ~Includes(existingPathParamNames, n)))
        orderedPathParams ==
            SeqMap(LAMBDA n : IF Includes(existingPathParamNames, n)
                              THEN FindByName(existingPathParams, n)
                              ELSE FindByName(newPathParams, n),
                   detectedParamNames)
    IN orderedPathParams \o nonPathParams

----------------------------------------------------------------------------
(* Text constants used as inputs                                           *)

NameX == <<"x">>
NameY == <<"y">>
TextD == <<"d">>

TplEmpty == <<>>
TplA == <<"/","a">>
TplAX == <<"/","a","/","{","x","}">>
TplAXY == <<"/","a","/","{","x","}","/","{","y","}">>
TplYX == <<"/","{","y","}","/","{","x","}">>
TplXX == <<"/","{","x","}","/","{","x","}">>
TplOpen == <<"/","{","x">>
TplBraces == <<"/","{","}","/","{","y","}">>

\* The hook is idle while a pure function is run on its own.
NoHook == <<>>
HookIdle == document = NoHook /\ rendered = NoHook /\ last = NoHook /\ calls = 0
NoResult == <<>>

----------------------------------------------------------------------------
(* syncPathParameters run on its own: SpecSync                             *)

SyncTemplates == {TplEmpty, TplA, TplAXY, TplYX, TplXX, TplOpen, TplBraces}

SyncParamPool ==
    {[name |-> n, in |-> loc, description |-> d.description, required |-> d.required,
      type |-> d.type, format |-> d.format] :
        n \in {NameX, NameY},
        loc \in {"path", "query", "header"},
        d \in {[description |-> <<>>, required |-> TRUE, type |-> "string", format |-> None],
               [description |-> TextD, required |-> FALSE, type |-> "integer",
                format |-> Some("int64")]}}

SyncInputs ==
    {[params |-> ps, template |-> t] : ps \in SeqsUpTo(SyncParamPool, MaxParams),
                                       t \in SyncTemplates}

InitSync ==
    /\ HookIdle
    /\ pc = "start"
    /\ arg \in SyncInputs
    /\ res = NoResult

RunSync ==
    /\ pc = "start"
    /\ res' = syncPathParameters(arg.params, arg.template)
    /\ pc' = "done"
    /\ UNCHANGED <<hookVars, arg>>

NextSync == RunSync

SpecSync == InitSync /\ [][NextSync]_vars

HasPathParam(params, name) ==
    \E i \in DOMAIN params : params[i].in = "path" /\ params[i].name = name

NonPathOf(params) == SelectSeq(params, LAMBDA p : p.in # "path")

\* C5: the result of syncPathParameters is one path-location parameter per
\* placeholder, in the template's order, followed by the non-path parameters
\* of the input in their original order; a placeholder with no existing
\* path-location parameter gets the fresh parameter {in: path, required: true,
\* type: 'string', description: ''}; sync([], "/a/{x}/{y}") is exactly x then y.
C5_SyncOrder ==
    pc = "done" /\ arg \in SyncInputs =>
        LET names == extractPathParameters(arg.template)
            n == Len(names)
        IN /\ Len(res) = n + Len(NonPathOf(arg.params))
           /\ \A i \in 1..n :
                /\ res[i].in = "path"
                /\ res[i].name = names[i]
                /\ ~HasPathParam(arg.params, names[i]) =>
                       res[i] = [name |-> names[i], in |-> "path", description |-> <<>>,
                                 required |-> TRUE, type |-> "string", format |-> None]
           /\ SubSeq(res, n + 1, Len(res)) = NonPathOf(arg.params)
           /\ (arg.params = <<>> /\ arg.template = TplAXY) =>
                  /\ Len(res) = 2
                  /\ res[1].name = NameX /\ res[2].name = NameY
                  /\ \A i \in 1..2 : res[i].in = "path" /\ res[i].required
                                     /\ res[i].type = "string" /\ res[i].description = <<>>

\* Witness of C5: path parameters stored as x, (query), y are returned in the
\* template's order y, x, with the query parameter last.
C5_Witness ==
    /\ pc = "done"
    /\ arg.template = TplYX
    /\ Len(arg.params) = 3
    /\ arg.params[1].in = "path" /\ arg.params[1].name = NameX
    /\ arg.params[2].in = "query"
    /\ arg.params[3].in = "path" /\ arg.params[3].name = NameY
    /\ Len(res) = 3
    /\ res[1] = arg.params[3] /\ res[2] = arg.params[1] /\ res[3] = arg.params[2]

\* C6 (as claimed): every existing path-location parameter whose name is still
\* in the template is in the result field for field, every path-location
\* parameter whose name is gone is dropped, and the non-path parameters are
\* returned unchanged, none added and none removed.
C6_SyncPreserves ==
    pc = "done" /\ arg \in SyncInputs =>
        LET names == extractPathParameters(arg.template)
        IN /\ \A i \in DOMAIN arg.params :
                (arg.params[i].in = "path" /\ Includes(names, arg.params[i].name))
                    => \E j \in DOMAIN res : res[j] = arg.params[i]
           /\ \A j \in DOMAIN res :
                res[j].in = "path" => Includes(names, res[j].name)
           /\ NonPathOf(res) = NonPathOf(arg.params)

----------------------------------------------------------------------------
(* generateOperationId run on its own: SpecOpId                            *)

OpIdAlphabet == {"/", "-", "{", "a", "b"}

\* "/contract-accounts/{id}/payment-plans"
PathPaymentPlans ==
    <<"/","c","o","n","t","r","a","c","t","-","a","c","c","o","u","n","t","s",
      "/","{","i","d","}",
      "/","p","a","y","m","e","n","t","-","p","l","a","n","s">>
\* "/health"
PathHealth == <<"/","h","e","a","l","t","h">>

OpIdInputs ==
    {[method |-> m, path |-> p] :
        m \in Range(HTTP_METHODS),
        p \in SeqsUpTo(OpIdAlphabet, MaxPathLen) \cup {PathPaymentPlans, PathHealth}}

InitOpId ==
    /\ HookIdle
    /\ pc = "start"
    /\ arg \in OpIdInputs
    /\ res = NoResult

RunOpId ==
    /\ pc = "start"
    /\ res' = generateOperationId(arg.method, arg.path)
    /\ pc' = "done"
    /\ UNCHANGED <<hookVars, arg>>

NextOpId == RunOpId

SpecOpId == InitOpId /\ [][NextOpId]_vars

\* A segment of p: a maximal run i..j without "/".
IsSegment(p, i, j) ==
    /\ 1 <= i /\ i <= j /\ j <= Len(p)
    /\ \A k \in i..j : p[k] # "/"
    /\ (i = 1 \/ p[i - 1] = "/")
    /\ (j = Len(p) \/ p[j + 1] = "/")

\* The segments that count: non-empty and not beginning with "{".
NamedSegments(p) ==
    {ij \in (1..Len(p)) \X (1..Len(p)) : IsSegment(p, ij[1], ij[2]) /\ p[ij[1]] # "{"}

\* A segment with its hyphens removed and the first letter of each
\* hyphen-delimited word in upper case, read off character by character.
RECURSIVE CamelFrom(_, _, _)
CamelFrom(p, k, j) ==
    IF k > j THEN <<>>
    ELSE IF p[k] = "-" THEN CamelFrom(p, k + 1, j)
    ELSE (IF k = 1 \/ p[k - 1] = "-" \/ p[k - 1] = "/"
          THEN <<ToUpper(p[k])>> ELSE <<p[k]>>) \o CamelFrom(p, k + 1, j)

\* C8: generateOperationId(method, path) is the method name followed by the
\* last non-empty, non-placeholder segment of the path with each
\* hyphen-delimited word capitalised and the words concatenated; with no such
\* segment it is the bare method name; (get, /contract-accounts/{id}/payment-plans)
\* gives getPaymentPlans and (post, /health) gives postHealth.
C8_OperationId ==
    pc = "done" /\ arg \in OpIdInputs =>
        LET p == arg.path
            segs == NamedSegments(p)
        IN /\ segs = {} => res = MethodText(arg.method)
           /\ segs # {} =>
                LET lastSeg == CHOOSE ij \in segs : \A o \in segs : o[1] <= ij[1]
                IN res = MethodText(arg.method) \o CamelFrom(p, lastSeg[1], lastSeg[2])
           /\ (arg.method = "get" /\ p = PathPaymentPlans) =>
                  res = <<"g","e","t","P","a","y","m","e","n","t","P","l","a","n","s">>
           /\ (arg.method = "post" /\ p = PathHealth) =>
                  res = <<"p","o","s","t","H","e","a","l","t","h">>

\* Witness of C8: the id of get on /contract-accounts/{id}/payment-plans.
C8_Witness ==
    /\ pc = "done"
    /\ arg.method = "get" /\ arg.path = PathPaymentPlans
    /\ res = <<"g","e","t","P","a","y","m","e","n","t","P","l","a","n","s">>

----------------------------------------------------------------------------
(* The legacy-format migration: hooks/useSwaggerDocument.ts (migrateDocument)*)
(* and utils/yamlGenerator.ts (ensureOperationsFormat).                     *)
(*                                                                          *)
(* A stored path is a JavaScript object: a record whose DOMAIN is the set   *)
(* of keys it has.  A value that is not a string is written as a token      *)
(* beginning with "#".                                                      *)

JsNumber == "#number"

Has(obj, key) == key \in DOMAIN obj

\* typeof v === 'string', for the value of a `method` key
IsString(v) == v # JsNumber

\* JavaScript truthiness of the value of a `method` key
Truthy(v) == v # ""

\* (oldPath.key as T) || dflt : the value when the key is there, else dflt.
\* (A falsy value that is there is the empty text or list, which is dflt.)
FieldOr(obj, key, dflt) == IF Has(obj, key) THEN obj[key] ELSE dflt

\* The operation built from the flat fields of a legacy path.
LegacyOperation(oldPath) ==
    [method |-> oldPath.method,
     tags |-> FieldOr(oldPath, "tags", <<>>),
     summary |-> FieldOr(oldPath, "summary", <<>>),
     operationId |-> FieldOr(oldPath, "operationId", <<>>),
     description |-> FieldOr(oldPath, "description", <<>>),
     deprecated |-> FieldOr(oldPath, "deprecated", FALSE),
     parameters |-> FieldOr(oldPath, "parameters", <<>>),
     responses |-> FieldOr(oldPath, "responses", <<>>),
     requestBody |-> FieldOr(oldPath, "requestBody", None),
     security |-> FieldOr(oldPath, "security", None)]

\* Mutant: wraps the flat fields without first looking for operations[].
migratePath_noArrayCheck(path) ==
    IF Has(path, "method") /\ Truthy(path.method) /\ IsString(path.method)
    THEN [path |-> path.path, operations |-> <<LegacyOperation(path)>>]
    ELSE path

\* The body of migrateDocument's paths.map
migratePath(path) ==
    IF Has(path, "operations") THEN path
    ELSE IF Has(path, "method") /\ Truthy(path.method) /\ IsString(path.method)
    THEN [path |-> path.path, operations |-> <<LegacyOperation(path)>>]
    ELSE path

migrateDocument(doc) ==
    [doc EXCEPT !.paths = SeqMap(migratePath, doc.paths)]

\* The body of ensureOperationsFormat's paths.map
ensurePathFormat(path) ==
    IF Has(path, "operations") THEN path
    ELSE IF Has(path, "method") /\ Truthy(path.method)
    THEN [path |-> path.path, operations |-> <<LegacyOperation(path)>>]
    ELSE path

ensureOperationsFormat(doc) ==
    [doc EXCEPT !.paths = SeqMap(ensurePathFormat, doc.paths)]

----------------------------------------------------------------------------
(* Operations, parameters and responses used as inputs                      *)

Param(name, loc, required) ==
    [name |-> name, in |-> loc, description |-> <<>>, required |-> required,
     type |-> "string", format |-> None]

Response(code, ref) == [statusCode |-> code, description |-> <<>>, schemaRef |-> ref]

\* The operation addPath creates
NewOperation ==
    [method |-> "get", tags |-> <<>>, summary |-> <<>>, operationId |-> <<>>,
     description |-> <<>>, deprecated |-> FALSE, parameters |-> <<>>,
     responses |-> <<>>, requestBody |-> None, security |-> None]

Op(method, operationId, parameters, responses) ==
    [NewOperation EXCEPT !.method = method, !.operationId = operationId,
                         !.parameters = parameters, !.responses = responses]

----------------------------------------------------------------------------
(* The migrations run on their own: SpecMigrate                             *)

MaxMigratePaths == 2

LegacyParams == <<Param(NameX, "path", TRUE)>>

StoredPathPool ==
    { \* the legacy flat shape
      [path |-> TplAX, method |-> "get", summary |-> TextD, parameters |-> LegacyParams],
      [path |-> TplA, method |-> "post", summary |-> <<>>, operationId |-> TextD,
       deprecated |-> TRUE],
      \* the operations[] shape
      [path |-> TplA, operations |-> <<Op("get", <<>>, <<>>, <<>>)>>],
      [path |-> TplAX, operations |-> <<>>],
      \* both: operations[] beside left-over flat fields
      [path |-> TplAX, method |-> "put", summary |-> TextD,
       operations |-> <<Op("get", TextD, LegacyParams, <<>>), Op("post", <<>>, <<>>, <<>>)>>],
      \* neither shape
      [path |-> TplA],
      [path |-> TplA, method |-> "", summary |-> TextD],
      [path |-> TplA, method |-> JsNumber, summary |-> TextD] }

MigrateInputs ==
    {[fn |-> f, doc |-> [paths |-> ps]] :
        f \in {"migrateDocument", "ensureOperationsFormat"},
        ps \in SeqsUpTo(StoredPathPool, MaxMigratePaths)}

ApplyMigration(fn, doc) ==
    IF fn = "migrateDocument" THEN migrateDocument(doc) ELSE ensureOperationsFormat(doc)

InitMigrate ==
    /\ HookIdle
    /\ pc = "start"
    /\ arg \in MigrateInputs
    /\ res = <<>>

\* The first migration of the document
MigrateOnce ==
    /\ pc = "start"
    /\ res' = <<ApplyMigration(arg.fn, arg.doc)>>
    /\ pc' = "once"
    /\ UNCHANGED <<hookVars, arg>>

\* The migration of the migrated document
MigrateAgain ==
    /\ pc = "once"
    /\ res' = Append(res, ApplyMigration(arg.fn, res[1]))
    /\ pc' = "twice"
    /\ UNCHANGED <<hookVars, arg>>

NextMigrate == MigrateOnce \/ MigrateAgain

SpecMigrate == InitMigrate /\ [][NextMigrate]_vars

\* C7: migrating twice gives the same document as migrating once, and a path
\* that already carries operations[] is returned unchanged, for migrateDocument
\* and for ensureOperationsFormat.
C7_MigrationIdempotent ==
    /\ pc \in {"once", "twice"} =>
          /\ Len(res[1].paths) = Len(arg.doc.paths)
          /\ \A i \in DOMAIN arg.doc.paths :
                Has(arg.doc.paths[i], "operations") => res[1].paths[i] = arg.doc.paths[i]
    /\ pc = "twice" => res[2] = res[1]

\* Witness of C7: a legacy path was wrapped by the first migration of
\* migrateDocument and the second migration left the result as it was.
C7_Witness ==
    /\ pc = "twice"
    /\ arg.fn = "migrateDocument"
    /\ Len(arg.doc.paths) = 2
    /\ ~Has(arg.doc.paths[1], "operations") /\ Has(arg.doc.paths[1], "method")
    /\ Has(res[1].paths[1], "operations")
    /\ Len(res[1].paths[1].operations) = 1
    /\ res[1].paths[1].operations[1].method = "get"
    /\ res[1].paths[1].operations[1].summary = TextD
    /\ Has(arg.doc.paths[2], "operations") /\ Has(arg.doc.paths[2], "method")
    /\ res[2] = res[1]

----------------------------------------------------------------------------
(* Parsed YAML: what yaml.parse hands to the importer.                      *)
(*                                                                          *)
(* A scalar is its text, or a token sequence beginning with "#" when it is  *)
(* not a string: null, a boolean, a number, or undefined (the key is not    *)
(* there).  A mapping with free keys is a sequence of [key, value] entries   *)
(* in document order.                                                       *)

JsUndefined == <<"#undefined">>
JsNull == <<"#null">>
JsTrue == <<"#true">>
JsFalse == <<"#false">>
JsNum(digits) == <<"#num">> \o digits

\* JavaScript truthiness of a scalar
JsTruthy(v) ==
    /\ v \notin {<<>>, JsUndefined, JsNull, JsFalse}
    /\ ~(Len(v) >= 2 /\ v[1] = "#num" /\ \A i \in 2..Len(v) : v[i] = "0")

\* (v as string) || dflt
OrElse(v, dflt) == IF JsTruthy(v) THEN v ELSE dflt

\* String(v) / Array.prototype.join's rendering of a scalar
JsToString(v) ==
    IF v = JsNull \/ v = JsUndefined THEN <<>>
    ELSE IF v = JsTrue THEN <<"t","r","u","e">>
    ELSE IF v = JsFalse THEN <<"f","a","l","s","e">>
    ELSE IF v # <<>> /\ v[1] = "#num" THEN Tail(v)
    ELSE v

----------------------------------------------------------------------------
(* utils/yamlImporter.ts                                                    *)

RefPrefix ==
    <<"#","/","c","o","m","p","o","n","e","n","t","s","/","s","c","h","e","m","a","s","/">>

\* ref.match(/#\/components\/schemas\/(.+)/): the leftmost place where the
\* prefix is followed by at least one character that is not a line break.
RefMatchAt(ref, i) ==
    /\ i + Len(RefPrefix) <= Len(ref)
    /\ SubSeq(ref, i, i + Len(RefPrefix) - 1) = RefPrefix
    /\ ref[i + Len(RefPrefix)] # "\n"

\* Mutant: takes the text after the last "/" of the reference.
extractSchemaRef_lastSegment(ref) ==
    IF ~JsTruthy(ref) THEN <<>>
    ELSE LET parts == Split(ref, "/") IN parts[Len(parts)]

extractSchemaRef(ref) ==
    IF ~JsTruthy(ref) THEN <<>>
    ELSE IF \E i \in DOMAIN ref : RefMatchAt(ref, i)
    THEN LET i == CHOOSE i \in DOMAIN ref :
                      RefMatchAt(ref, i) /\ \A k \in 1..(i - 1) : ~RefMatchAt(ref, k)
             from == i + Len(RefPrefix)
             stop == IF \E j \in from..Len(ref) : ref[j] = "\n"
                     THEN (CHOOSE j \in from..Len(ref) :
                               ref[j] = "\n" /\ \A k \in from..(j - 1) : ref[k] # "\n") - 1
                     ELSE Len(ref)
         IN SubSeq(ref, from, stop)
    ELSE <<>>

parseSecurityScheme(entry) ==
    LET s == entry.value
    IN [name |-> entry.key,
        type |-> IF s.type # "" THEN s.type ELSE "http",
        scheme |-> IF s.type = "http" THEN OrElse(s.scheme, <<"b","e","a","r","e","r">>)
                   ELSE <<>>,
        bearerFormat |-> IF s.type = "http" /\ JsTruthy(s.bearerFormat)
                         THEN s.bearerFormat ELSE <<>>,
        in |-> IF s.type = "apiKey" THEN (IF s.in # "" THEN s.in ELSE "header") ELSE "",
        apiKeyName |-> IF s.type = "apiKey" THEN OrElse(s.name, <<>>) ELSE <<>>]

parseSecuritySchemes(schemes) == SeqMap(parseSecurityScheme, schemes)

PropertyTypes == {"string", "number", "integer", "boolean", "array", "object"}

RECURSIVE JoinWith(_, _)
JoinWith(ss, sep) ==
    IF ss = <<>> THEN <<>>
    ELSE IF Len(ss) = 1 THEN ss[1]
    ELSE ss[1] \o sep \o JoinWith(Tail(ss), sep)

parseSchemaProperty(name, prop, requiredFields) ==
    LET base == [name |-> name, type |-> "", format |-> <<>>,
                 description |-> OrElse(prop.description, <<>>),
                 example |-> IF prop.example # JsUndefined THEN JsToString(prop.example)
                             ELSE <<>>,
                 required |-> Includes(requiredFields, name),
                 ref |-> <<>>, items |-> [type |-> "string", ref |-> <<>>],
                 enumValues |-> <<>>,
                 nullable |-> FALSE, default |-> <<>>]
    IN IF JsTruthy(prop.ref)
       THEN [base EXCEPT !.type = "object", !.ref = extractSchemaRef(prop.ref)]
       ELSE [base EXCEPT
               !.type = IF prop.type \in PropertyTypes THEN prop.type ELSE "",
               !.format = IF JsTruthy(prop.format) THEN prop.format ELSE <<>>,
               !.enumValues = JoinWith(SeqMap(JsToString, prop.enum), <<",", " ">>),
               !.items = IF prop.type = "array" /\ prop.items # <<>>
                         THEN (IF JsTruthy(prop.items[1].ref)
                               THEN [type |-> "object",
                                     ref |-> extractSchemaRef(prop.items[1].ref)]
                               ELSE [type |-> IF prop.items[1].type # ""
                                              THEN prop.items[1].type ELSE "string",
                                     ref |-> <<>>])
                         ELSE @]

parseSchema(entry) ==
    LET s == entry.value
    IN [name |-> entry.key,
        type |-> IF s.type # "" THEN s.type ELSE "object",
        properties |-> SeqMap(LAMBDA e : parseSchemaProperty(e.key, e.value, s.required),
                              s.properties),
        isTemplate |-> FALSE]

parseSchemas(schemas) == SeqMap(parseSchema, schemas)

parseParameter(p) ==
    [name |-> OrElse(p.name, <<>>),
     in |-> IF p.in # "" THEN p.in ELSE "path",
     description |-> OrElse(p.description, <<>>),
     required |-> p.required,
     type |-> IF p.schema.type # "" THEN p.schema.type ELSE "string",
     format |-> None]

parseParameters(params) == SeqMap(parseParameter, params)

ResponseContentTypes == <<"application/json", "application/vnd.api+json", "*/*">>

\* The first of the three content types, in that order, whose schema is a $ref
RECURSIVE FirstContentRef(_, _)
FirstContentRef(content, cts) ==
    IF cts = <<>> THEN <<>>
    ELSE IF \E i \in DOMAIN content : content[i].key = Head(cts) /\ JsTruthy(content[i].ref)
    THEN extractSchemaRef(
             content[CHOOSE i \in DOMAIN content : content[i].key = Head(cts)].ref)
    ELSE FirstContentRef(content, Tail(cts))

parseResponse(entry) ==
    [statusCode |-> entry.key,
     description |-> OrElse(entry.value.description, <<>>),
     schemaRef |-> FirstContentRef(entry.value.content, ResponseContentTypes)]

parseResponses(responses) == SeqMap(parseResponse, responses)

\* requestBody is None or Some(node)
parseRequestBody(requestBody) ==
    IF requestBody = None THEN None
    ELSE LET rb == requestBody[1]
         IN Some([description |-> OrElse(rb.description, <<>>),
                  required |-> IF rb.required = None THEN TRUE ELSE rb.required[1],
                  schemaRef |-> IF rb.content # <<>> /\ JsTruthy(rb.content[1].ref)
                                THEN extractSchemaRef(rb.content[1].ref) ELSE <<>>,
                  contentType |-> IF rb.content # <<>> THEN rb.content[1].key
                                  ELSE "application/json"])

ImporterMethods == <<"get", "post", "put", "delete", "patch", "options", "head", "trace">>

HasMethod(pathItem, method) == \E i \in DOMAIN pathItem : pathItem[i].method = method

MethodNode(pathItem, method) ==
    pathItem[CHOOSE i \in DOMAIN pathItem : pathItem[i].method = method].op

\* securityToUse.flatMap((s) => Object.keys(s))
SecurityNames(securityList) == Concat(securityList)

\* Mutant: an operation whose own security list is empty takes the global one.
parseOperation_inheritWhenEmpty(method, operation, globalSecurity) ==
    LET securityToUse == IF operation.security # None /\ operation.security[1] # <<>>
                         THEN operation.security[1]
                         ELSE globalSecurity
        security == SecurityNames(securityToUse)
    IN [method |-> method,
        tags |-> operation.tags,
        summary |-> OrElse(operation.summary, <<>>),
        operationId |-> OrElse(operation.operationId, <<>>),
        description |-> OrElse(operation.description, <<>>),
        deprecated |-> FALSE,
        parameters |-> parseParameters(operation.parameters),
        responses |-> parseResponses(operation.responses),
        requestBody |-> parseRequestBody(operation.requestBody),
        security |-> IF Len(security) > 0 THEN Some(security) ELSE None]

parseOperation(method, operation, globalSecurity) ==
    LET securityToUse == IF operation.security # None THEN operation.security[1]
                         ELSE globalSecurity
        security == SecurityNames(securityToUse)
    IN [method |-> method,
        tags |-> operation.tags,
        summary |-> OrElse(operation.summary, <<>>),
        operationId |-> OrElse(operation.operationId, <<>>),
        description |-> OrElse(operation.description, <<>>),
        deprecated |-> FALSE,
        parameters |-> parseParameters(operation.parameters),
        responses |-> parseResponses(operation.responses),
        requestBody |-> parseRequestBody(operation.requestBody),
        security |-> IF Len(security) > 0 THEN Some(security) ELSE None]

parsePathItem(pathItem, globalSecurity) ==
    SeqMap(LAMBDA m : parseOperation(m, MethodNode(pathItem, m), globalSecurity),
           SelectSeq(ImporterMethods, LAMBDA m : HasMethod(pathItem, m)))

parsePaths(paths, globalSecurity) ==
    SelectSeq(
        SeqMap(LAMBDA e : [path |-> e.key,
                           operations |-> parsePathItem(e.item, globalSecurity)],
               paths),
        LAMBDA p : Len(p.operations) > 0)

DefaultOpenApi == <<"3",".","0",".","0">>
DefaultVersion == <<"1",".","0",".","0">>

UnsupportedComponents ==
    <<"responses", "parameters", "examples", "requestBodies", "headers", "links",
      "callbacks">>

\* importYamlDocument after yaml.parse returned the object `parsed`
importParsed(parsed) ==
    LET errors == IF ~JsTruthy(parsed.openapi) THEN <<"Missing required field: openapi">>
                  ELSE <<>>
        titleWarning == IF ~JsTruthy(parsed.info.title)
                        THEN <<"Missing info.title - will be empty">> ELSE <<>>
        componentWarnings ==
            SelectSeq(UnsupportedComponents, LAMBDA c : c \in parsed.components.others)
        doc == [openapi |-> OrElse(parsed.openapi, DefaultOpenApi),
                info |-> [title |-> OrElse(parsed.info.title, <<>>),
                          description |-> OrElse(parsed.info.description, <<>>),
                          version |-> OrElse(parsed.info.version, DefaultVersion)],
                servers |-> SeqMap(LAMBDA sv : [url |-> OrElse(sv.url, <<>>),
                                                description |-> OrElse(sv.description, <<>>)],
                                   parsed.servers),
                securitySchemes |-> parseSecuritySchemes(parsed.components.securitySchemes),
                tags |-> SeqMap(LAMBDA t : [name |-> OrElse(t.name, <<>>),
                                            description |-> OrElse(t.description, <<>>)],
                                parsed.tags),
                paths |-> parsePaths(parsed.paths, parsed.security),
                schemas |-> parseSchemas(parsed.components.schemas)]
    IN [success |-> errors = <<>>,
        document |-> Some(doc),
        errors |-> errors,
        warnings |-> titleWarning \o componentWarnings]

----------------------------------------------------------------------------
(* utils/yamlGenerator.ts                                                   *)
(*                                                                          *)
(* The serializer's output is kept structured by key: each scalar is the    *)
(* text the code writes after "key: ", and a key it does not write is       *)
(* NotEmitted.                                                              *)

NotEmitted == JsUndefined

RECURSIVE Spaces(_)
Spaces(n) == IF n = 0 THEN <<>> ELSE <<" ">> \o Spaces(n - 1)

\* description.replace(/'/g, "''")
RECURSIVE DoubleQuotes(_)
DoubleQuotes(s) ==
    IF s = <<>> THEN <<>>
    ELSE (IF Head(s) = "'" THEN <<"'", "'">> ELSE <<Head(s)>>) \o DoubleQuotes(Tail(s))

\* Mutant: wraps a single-line description in quotes without doubling the
\* quotes inside it.
formatDescription_noEscape(description, indent) ==
    IF description = <<>> THEN <<"'", "'">>
    ELSE IF Includes(description, "\n")
    THEN <<"|", "\n">> \o
         JoinWith(SeqMap(LAMBDA line : Spaces(indent) \o line, Split(description, "\n")),
                  <<"\n">>)
    ELSE <<"'">> \o description \o <<"'">>

formatDescription(description, indent) ==
    IF description = <<>> THEN <<"'", "'">>
    ELSE IF Includes(description, "\n")
    THEN <<"|", "\n">> \o
         JoinWith(SeqMap(LAMBDA line : Spaces(indent) \o line, Split(description, "\n")),
                  <<"\n">>)
    ELSE <<"'">> \o DoubleQuotes(description) \o <<"'">>

\* `'#/components/schemas/${name}'`, or nothing when the reference is empty
EmitRef(name) ==
    IF name = <<>> THEN NotEmitted ELSE <<"'">> \o RefPrefix \o name \o <<"'">>

\* `"${version}"`
DoubleQuoted(text) == <<"\"">> \o text \o <<"\"">>

\* String.prototype.trim
RECURSIVE Trim(_)
Trim(s) ==
    IF s = <<>> THEN s
    ELSE IF Head(s) = " " THEN Trim(Tail(s))
    ELSE IF s[Len(s)] = " " THEN Trim(SubSeq(s, 1, Len(s) - 1))
    ELSE s

\* raw.split(',').map((v) => v.trim()).filter((v) => v !== '')
EnumArray(raw) ==
    IF raw = <<>> THEN <<>>
    ELSE SelectSeq(SeqMap(Trim, Split(raw, ",")), LAMBDA v : v # <<>>)

EmitParameter(param) ==
    [name |-> param.name,
     in |-> param.in,
     description |-> formatDescription(param.description, 12),
     required |-> param.required,
     schema |-> [type |-> param.type, format |-> param.format]]

EmitRequestBody(requestBody) ==
    IF requestBody = None THEN None
    ELSE LET rb == requestBody[1]
         IN Some([description |-> IF rb.description # <<>>
                                  THEN formatDescription(rb.description, 10)
                                  ELSE NotEmitted,
                  required |-> Some(rb.required),
                  content |-> <<[key |-> IF rb.contentType # "" THEN rb.contentType
                                         ELSE "application/json",
                                 ref |-> EmitRef(rb.schemaRef)]>>])

EmitResponse(resp) ==
    [key |-> resp.statusCode,
     value |-> [description |-> formatDescription(resp.description, 12),
                content |-> <<[key |-> "application/vnd.api+json",
                               ref |-> EmitRef(resp.schemaRef)]>>]]

EmitOperation(operation) ==
    [tags |-> operation.tags,
     summary |-> operation.summary,
     operationId |-> operation.operationId,
     description |-> formatDescription(operation.description, 8),
     deprecated |-> operation.deprecated,
     parameters |-> SeqMap(EmitParameter, operation.parameters),
     requestBody |-> EmitRequestBody(operation.requestBody),
     responses |-> SeqMap(EmitResponse, operation.responses),
     security |-> None]

EmitPath(path) ==
    [key |-> path.path,
     item |-> SeqMap(LAMBDA o : [method |-> o.method, op |-> EmitOperation(o)],
                     path.operations)]

EmitSecurityScheme(scheme) ==
    [key |-> scheme.name,
     value |-> [type |-> scheme.type,
                scheme |-> IF scheme.type = "http"
                           THEN (IF scheme.scheme # <<>> THEN scheme.scheme
                                 ELSE <<"b","e","a","r","e","r">>)
                           ELSE NotEmitted,
                bearerFormat |-> IF /\ scheme.type = "http"
                                    /\ scheme.scheme = <<"b","e","a","r","e","r">>
                                    /\ scheme.bearerFormat # <<>>
                                 THEN scheme.bearerFormat ELSE NotEmitted,
                in |-> IF scheme.type = "apiKey"
                       THEN (IF scheme.in # "" THEN scheme.in ELSE "header") ELSE "",
                name |-> IF scheme.type = "apiKey"
                         THEN (IF scheme.apiKeyName # <<>> THEN scheme.apiKeyName
                               ELSE <<"X","-","A","P","I","-","K","e","y">>)
                         ELSE NotEmitted]]

NoProperty ==
    [ref |-> NotEmitted, type |-> "", format |-> NotEmitted, nullable |-> FALSE,
     default |-> NotEmitted, items |-> None, enum |-> <<>>,
     description |-> NotEmitted, example |-> NotEmitted]

\* prop.items?.$ref and prop.items?.type: empty when the property has no items
ItemsOf(prop) == IF Has(prop, "items") THEN prop.items ELSE [type |-> "", ref |-> <<>>]

EmitProperty(prop) ==
    IF prop.type = "object" /\ prop.ref # <<>>
    THEN [NoProperty EXCEPT !.ref = EmitRef(prop.ref)]
    ELSE IF prop.type = "array"
    THEN [NoProperty EXCEPT
            !.type = "array",
            !.items = Some(IF ItemsOf(prop).ref # <<>>
                           THEN [ref |-> EmitRef(ItemsOf(prop).ref), type |-> ""]
                           ELSE [ref |-> NotEmitted,
                                 type |-> IF ItemsOf(prop).type # "" THEN ItemsOf(prop).type
                                          ELSE "string"]),
            !.description = IF prop.description # <<>>
                            THEN formatDescription(prop.description, 10) ELSE NotEmitted]
    ELSE [NoProperty EXCEPT
            !.type = prop.type,
            !.format = IF prop.format # <<>> THEN prop.format ELSE NotEmitted,
            !.nullable = prop.nullable,
            !.default = IF prop.default # <<>> THEN prop.default ELSE NotEmitted,
            !.enum = EnumArray(prop.enumValues),
            !.description = IF prop.description # <<>>
                            THEN formatDescription(prop.description, 10) ELSE NotEmitted,
            !.example = IF prop.example # <<>> THEN prop.example ELSE NotEmitted]

EmitSchema(schema) ==
    [key |-> schema.name,
     value |-> [type |-> schema.type,
                required |-> <<>>,
                properties |-> SeqMap(LAMBDA q : [key |-> q.name, value |-> EmitProperty(q)],
                                      schema.properties)]]

\* Mutant: the closing security list is written whenever components is.
EmittedSections_withComponents(doc) ==
    <<"openapi", "info">>
    \o (IF Len(doc.servers) > 0 THEN <<"servers">> ELSE <<>>)
    \o (IF Len(doc.tags) > 0 THEN <<"tags">> ELSE <<>>)
    \o (IF Len(doc.paths) > 0 THEN <<"paths">> ELSE <<>>)
    \o (IF Len(doc.schemas) > 0 \/ Len(doc.securitySchemes) > 0
        THEN <<"components", "security">> ELSE <<>>)

\* The top-level sections written, in the order they are written
EmittedSections(doc) ==
    <<"openapi", "info">>
    \o (IF Len(doc.servers) > 0 THEN <<"servers">> ELSE <<>>)
    \o (IF Len(doc.tags) > 0 THEN <<"tags">> ELSE <<>>)
    \o (IF Len(doc.paths) > 0 THEN <<"paths">> ELSE <<>>)
    \o (IF Len(doc.schemas) > 0 \/ Len(doc.securitySchemes) > 0
        THEN <<"components">> ELSE <<>>)
    \o (IF Len(doc.securitySchemes) > 0 THEN <<"security">> ELSE <<>>)

\* The sections written under components, in the order they are written
EmittedComponents(doc) ==
    (IF Len(doc.securitySchemes) > 0 THEN <<"securitySchemes">> ELSE <<>>)
    \o (IF Len(doc.schemas) > 0 THEN <<"schemas">> ELSE <<>>)

buildYamlDocument(doc) ==
    LET migratedDoc == ensureOperationsFormat(doc)
    IN [sections |-> EmittedSections(migratedDoc),
        componentSections |-> EmittedComponents(migratedDoc),
        openapi |-> migratedDoc.openapi,
        info |-> [title |-> migratedDoc.info.title,
                  description |-> formatDescription(migratedDoc.info.description, 4),
                  version |-> DoubleQuoted(migratedDoc.info.version)],
        servers |-> SeqMap(LAMBDA sv : [url |-> sv.url,
                                        description |-> IF sv.description # <<>>
                                            THEN formatDescription(sv.description, 6)
                                            ELSE NotEmitted],
                           migratedDoc.servers),
        tags |-> SeqMap(LAMBDA t : [name |-> t.name,
                                    description |-> formatDescription(t.description, 6)],
                        migratedDoc.tags),
        paths |-> SeqMap(EmitPath, migratedDoc.paths),
        components |-> [securitySchemes |-> SeqMap(EmitSecurityScheme,
                                                   migratedDoc.securitySchemes),
                        schemas |-> SeqMap(EmitSchema, migratedDoc.schemas),
                        others |-> {}],
        security |-> SeqMap(LAMBDA sc : <<sc.name>>, doc.securitySchemes)]

----------------------------------------------------------------------------
(* yaml.parse, on the serializer's output: the scalar a written text is read*)
(* back as (YAML 1.2 core schema), for the texts the model writes.          *)

Digits == {"0", "1", "2", "3", "4", "5", "6", "7", "8", "9"}

\* '...' : the text between the quotes, each '' read as one quote
RECURSIVE UndoubleQuotes(_)
UndoubleQuotes(s) ==
    IF s = <<>> THEN <<>>
    ELSE IF Len(s) >= 2 /\ s[1] = "'" /\ s[2] = "'"
    THEN <<"'">> \o UndoubleQuotes(SubSeq(s, 3, Len(s)))
    ELSE <<Head(s)>> \o UndoubleQuotes(Tail(s))

RECURSIVE LeadingSpaces(_)
LeadingSpaces(line) ==
    IF line # <<>> /\ Head(line) = " " THEN 1 + LeadingSpaces(Tail(line)) ELSE 0

RECURSIVE DropTrailingBlank(_)
DropTrailingBlank(lines) ==
    IF lines # <<>> /\ Trim(lines[Len(lines)]) = <<>>
    THEN DropTrailingBlank(SubSeq(lines, 1, Len(lines) - 1))
    ELSE lines

\* A literal block scalar "|": the lines without the indentation of the first
\* line that has content, trailing blank lines dropped, each line ended by a
\* line break (clip chomping keeps the last one).
BlockScalar(text) ==
    LET lines == Tail(Split(text, "\n"))
        content == SelectSeq(lines, LAMBDA l : Trim(l) # <<>>)
        indent == IF content = <<>> THEN 0 ELSE LeadingSpaces(content[1])
        stripped == SeqMap(LAMBDA l : IF Len(l) >= indent
                                      THEN SubSeq(l, indent + 1, Len(l)) ELSE <<>>,
                           DropTrailingBlank(lines))
    IN IF stripped = <<>> THEN <<>> ELSE JoinWith(stripped, <<"\n">>) \o <<"\n">>

PlainScalar(text) ==
    LET t == Trim(text)
    IN IF t = <<>> \/ t = <<"~">> \/ t = <<"n","u","l","l">> THEN JsNull
       ELSE IF t = <<"t","r","u","e">> THEN JsTrue
       ELSE IF t = <<"f","a","l","s","e">> THEN JsFalse
       ELSE IF \A i \in DOMAIN t : t[i] \in Digits THEN JsNum(t)
       ELSE t

YamlScalar(text) ==
    IF text = NotEmitted THEN JsUndefined
    ELSE IF text = <<>> THEN JsNull
    ELSE IF Head(text) = "'" THEN UndoubleQuotes(SubSeq(text, 2, Len(text) - 1))
    ELSE IF Head(text) = "\"" THEN SubSeq(text, 2, Len(text) - 1)
    ELSE IF Head(text) = "|" THEN BlockScalar(text)
    ELSE PlainScalar(text)

YamlContent(content) == SeqMap(LAMBDA c : [c EXCEPT !.ref = YamlScalar(@)], content)

YamlParameter(p) ==
    [p EXCEPT !.name = YamlScalar(@), !.description = YamlScalar(@)]

YamlOperation(op) ==
    [op EXCEPT
        !.tags = SeqMap(YamlScalar, @),
        !.summary = YamlScalar(@),
        !.operationId = YamlScalar(@),
        !.description = YamlScalar(@),
        !.parameters = SeqMap(YamlParameter, @),
        !.requestBody = SeqMap(LAMBDA rb : [rb EXCEPT !.description = YamlScalar(@),
                                                      !.content = YamlContent(@)], @),
        !.responses = SeqMap(LAMBDA r : [r EXCEPT !.value.description = YamlScalar(@),
                                                  !.value.content = YamlContent(@)], @)]

YamlProperty(q) ==
    [q EXCEPT !.ref = YamlScalar(@), !.format = YamlScalar(@), !.default = YamlScalar(@),
              !.items = SeqMap(LAMBDA it : [it EXCEPT !.ref = YamlScalar(@)], @),
              !.enum = SeqMap(YamlScalar, @),
              !.description = YamlScalar(@), !.example = YamlScalar(@)]

\* The object yaml.parse returns for the text the serializer wrote
yamlParse(text) ==
    [openapi |-> YamlScalar(text.openapi),
     info |-> [title |-> YamlScalar(text.info.title),
               description |-> YamlScalar(text.info.description),
               version |-> YamlScalar(text.info.version)],
     servers |-> SeqMap(LAMBDA sv : [url |-> YamlScalar(sv.url),
                                     description |-> YamlScalar(sv.description)],
                        text.servers),
     tags |-> SeqMap(LAMBDA t : [name |-> YamlScalar(t.name),
                                 description |-> YamlScalar(t.description)],
                     text.tags),
     paths |-> SeqMap(LAMBDA e : [e EXCEPT !.item =
                          SeqMap(LAMBDA m : [m EXCEPT !.op = YamlOperation(@)], @)],
                      text.paths),
     components |->
        [securitySchemes |->
            SeqMap(LAMBDA e : [e EXCEPT !.value.scheme = YamlScalar(@),
                                        !.value.bearerFormat = YamlScalar(@),
                                        !.value.name = YamlScalar(@)],
                   text.components.securitySchemes),
         schemas |->
            SeqMap(LAMBDA e : [e EXCEPT !.value.properties =
                       SeqMap(LAMBDA q : [q EXCEPT !.value = YamlProperty(@)], @)],
                   text.components.schemas),
         others |-> text.components.others],
     security |-> text.security]

\* importYamlDocument on the text the serializer wrote
importYamlDocument(text) == importParsed(yamlParse(text))

----------------------------------------------------------------------------
(* Serialize, then import: SpecRoundTrip                                    *)

TextAB == <<"a", "b">>
Text12 == <<"1", "2">>
TextQuote == <<"I", "t", "'", "s">>
TextLines == <<"a", "\n", "b">>
TextEnumTight == <<"a", ",", "b">>
TextEnumLoose == <<" ", "a", ",", " ", "b", ",">>
NameBearer == <<"b","e","a","r","e","r">>
NameAuth == <<"A", "u", "t", "h">>
NameItem == <<"I", "t", "e", "m">>

BearerScheme ==
    [name |-> NameAuth, type |-> "http", scheme |-> NameBearer, bearerFormat |-> <<>>,
     in |-> "", apiKeyName |-> <<>>]

Property(name, type, required, enumValues) ==
    [name |-> name, type |-> type, format |-> <<>>, description |-> <<>>,
     example |-> <<>>, required |-> required, ref |-> <<>>,
     items |-> [type |-> "string", ref |-> <<>>], enumValues |-> enumValues,
     nullable |-> FALSE, default |-> <<>>]

InitialDocument ==
    [openapi |-> DefaultOpenApi,
     info |-> [title |-> <<>>, description |-> <<>>, version |-> DefaultVersion],
     servers |-> <<>>, securitySchemes |-> <<>>, tags |-> <<>>, paths |-> <<>>,
     schemas |-> <<>>]

\* Documents in operations[] form, with methods of the model's set and plain
\* schema names as references.
RoundTripDocs ==
    {[InitialDocument EXCEPT
        !.info.title = TextAB,
        !.securitySchemes = d.schemes,
        !.paths = <<[path |-> TplAX,
                     operations |->
                        SeqMap(LAMBDA m :
                                 [NewOperation EXCEPT
                                    !.method = m,
                                    !.operationId = generateOperationId(m, TplAX),
                                    !.summary = d.summary,
                                    !.description = d.description,
                                    !.deprecated = d.deprecated,
                                    !.parameters =
                                        <<[Param(NameX, "path", TRUE) EXCEPT
                                              !.format = d.format]>>,
                                    !.responses = <<Response("200", NameItem)>>],
                               d.methods)]>>,
        !.schemas = <<[name |-> NameItem, type |-> "object",
                       properties |-> <<Property(NameX, "string", d.required, d.enum)>>,
                       isTemplate |-> d.isTemplate]>>] :
     d \in [schemes : {<<>>, <<BearerScheme>>},
            summary : {<<>>, TextAB, Text12},
            description : {<<>>, TextAB, TextQuote, TextLines},
            deprecated : BOOLEAN,
            format : {None, Some("int64")},
            methods : {<<"get">>, <<"get", "post">>, <<"post", "get">>},
            required : BOOLEAN,
            enum : {<<>>, TextEnumTight, TextEnumLoose},
            isTemplate : BOOLEAN]}

InitRoundTrip ==
    /\ HookIdle
    /\ pc = "start"
    /\ arg \in RoundTripDocs
    /\ res = <<>>

\* buildYamlDocument(D)
Serialize ==
    /\ pc = "start"
    /\ res' = <<buildYamlDocument(arg)>>
    /\ pc' = "serialized"
    /\ UNCHANGED <<hookVars, arg>>

\* importYamlDocument of the text
Import ==
    /\ pc = "serialized"
    /\ res' = Append(res, importYamlDocument(res[1]))
    /\ pc' = "imported"
    /\ UNCHANGED <<hookVars, arg>>

NextRoundTrip == Serialize \/ Import

SpecRoundTrip == InitRoundTrip /\ [][NextRoundTrip]_vars

\* The known lossy fields: enum text becomes the trimmed values joined by
\* ", ", and the isTemplate flag is not reconstructed.
UpToLossyFields(doc) ==
    [doc EXCEPT !.schemas =
        SeqMap(LAMBDA sc :
                 [sc EXCEPT !.isTemplate = FALSE,
                            !.properties =
                                SeqMap(LAMBDA q : [q EXCEPT !.enumValues =
                                           JoinWith(EnumArray(@), <<",", " ">>)], @)],
               @)]

\* C1 (as claimed): importing the serialized form of a document built from
\* supported features succeeds and gives the document back, up to the known
\* lossy fields.
C1_RoundTrip ==
    pc = "imported" =>
        /\ res[2].success
        /\ res[2].document = Some(UpToLossyFields(arg))

\* Some documents do come back: the round trip is not lost across the board.
RoundTripSome ==
    /\ pc = "imported"
    /\ res[2].success
    /\ res[2].document = Some(UpToLossyFields(arg))
    /\ arg.schemas[1].isTemplate
    /\ arg.schemas[1].properties[1].enumValues = TextEnumLoose
    /\ arg.paths[1].operations[1].description = TextQuote

----------------------------------------------------------------------------
(* hooks/useSwaggerDocument.ts: the path, operation and parameter handlers  *)
(*                                                                          *)
(* A handler that calls setDocument(prev => ...) is an operator of prev,    *)
(* the latest state.  A handler that reads `document` reads the value its   *)
(* render captured: that is the operator's `closure` argument.              *)

\* s.map((e, k) => k === i ? F(e) : e), with the indices counted from 1
MapAt(s, i, F(_)) == [k \in DOMAIN s |-> IF k = i THEN F(s[k]) ELSE s[k]]

\* s.filter((_, k) => k !== i)
RemoveAt(s, i) ==
    IF i \in DOMAIN s THEN SubSeq(s, 1, i - 1) \o SubSeq(s, i + 1, Len(s)) ELSE s

\* result.splice(i, 0, e), for 1 <= i <= Len(s) + 1
InsertAt(s, i, e) == SubSeq(s, 1, i - 1) \o <<e>> \o SubSeq(s, i, Len(s))

CopySuffix == <<"_", "c", "o", "p", "y">>

addPath(prev) ==
    [prev EXCEPT !.paths = Append(@, [path |-> <<>>, operations |-> <<NewOperation>>])]

updatePath(prev, index, value) ==
    [prev EXCEPT !.paths =
        MapAt(@, index,
              LAMBDA path :
                [path EXCEPT
                    !.path = value,
                    !.operations =
                        SeqMap(LAMBDA op :
                                 [op EXCEPT !.parameters = syncPathParameters(@, value)],
                               @)])]

removePath(prev, index) == [prev EXCEPT !.paths = RemoveAt(@, index)]

addOperation(prev, pathIndex, method) ==
    [prev EXCEPT !.paths =
        MapAt(@, pathIndex,
              LAMBDA path :
                IF \E j \in DOMAIN path.operations : path.operations[j].method = method
                THEN path
                ELSE [path EXCEPT
                        !.operations =
                            Append(@, Op(method, generateOperationId(method, path.path),
                                         syncPathParameters(<<>>, path.path), <<>>))])]

\* Mutant: keeps a path whose last operation was removed.
removeOperation_keepEmpty(prev, pathIndex, operationIndex) ==
    [prev EXCEPT !.paths =
        MapAt(@, pathIndex,
              LAMBDA path : [path EXCEPT !.operations = RemoveAt(@, operationIndex)])]

removeOperation(prev, pathIndex, operationIndex) ==
    [prev EXCEPT !.paths =
        SelectSeq(MapAt(@, pathIndex,
                        LAMBDA path :
                          [path EXCEPT !.operations = RemoveAt(@, operationIndex)]),
                  LAMBDA path : Len(path.operations) > 0)]

\* duplicatePath's search order
AvailableMethods == <<"get", "post", "put", "patch", "delete">>

UsedMethods(path) == {path.operations[j].method : j \in DOMAIN path.operations}

\* availableMethods.find(m => !usedMethods.has(m)); "" stands for undefined
nextMethod(path) ==
    IF \A k \in DOMAIN AvailableMethods : AvailableMethods[k] \in UsedMethods(path)
    THEN ""
    ELSE AvailableMethods[CHOOSE k \in DOMAIN AvailableMethods :
                              /\ AvailableMethods[k] \notin UsedMethods(path)
                              /\ \A h \in 1..(k - 1) :
                                    AvailableMethods[h] \in UsedMethods(path)]

\* Mutant: the new path's operation keeps the operationId of the original.
duplicateAsPath_sameId(path, operation) ==
    [path |-> path.path \o CopySuffix, operations |-> <<operation>>]

\* The path duplicatePath creates when every method is used
duplicateAsPath(path, operation) ==
    [path |-> path.path \o CopySuffix,
     operations |-> <<[operation EXCEPT !.operationId = @ \o CopySuffix]>>]

\* Mutant: the new operation gets its operationId from the method copied from.
duplicateAsOperation_oldMethodId(path, operation, method) ==
    [operation EXCEPT !.method = method,
                      !.operationId = generateOperationId(operation.method, path.path)]

\* The operation duplicatePath creates under the next free method
duplicateAsOperation(path, operation, method) ==
    [operation EXCEPT !.method = method,
                      !.operationId = generateOperationId(method, path.path)]

\* path and operation come from the closure, the update applies to prev
duplicatePath(closure, prev, pathIndex, operationIndex) ==
    LET path == closure.paths[pathIndex]
        operation == path.operations[operationIndex]
    IN IF nextMethod(path) = ""
       THEN [prev EXCEPT !.paths = Append(@, duplicateAsPath(path, operation))]
       ELSE [prev EXCEPT !.paths =
                MapAt(@, pathIndex,
                      LAMBDA p :
                        [p EXCEPT !.operations =
                            Append(@, duplicateAsOperation(path, operation,
                                                           nextMethod(path)))])]

\* the reordered list is built from the closure's paths
reorderPaths(closure, prev, startIndex, endIndex) ==
    [prev EXCEPT !.paths =
        InsertAt(RemoveAt(closure.paths, startIndex), endIndex,
                 closure.paths[startIndex])]

\* The parameter addParameter appends
NewParam ==
    [name |-> <<>>, in |-> "path", description |-> <<>>, required |-> TRUE,
     type |-> "string", format |-> None]

\* paths.map / operations.map down to one operation's parameters
MapParameters(prev, pathIndex, operationIndex, F(_)) ==
    [prev EXCEPT !.paths =
        MapAt(@, pathIndex,
              LAMBDA path :
                [path EXCEPT !.operations =
                    MapAt(@, operationIndex,
                          LAMBDA op : [op EXCEPT !.parameters = F(@)])])]

addParameter(prev, pathIndex, operationIndex) ==
    MapParameters(prev, pathIndex, operationIndex, LAMBDA ps : Append(ps, NewParam))

updateParameter(prev, pathIndex, operationIndex, paramIndex, field, value) ==
    MapParameters(prev, pathIndex, operationIndex,
                  LAMBDA ps : MapAt(ps, paramIndex,
                                    LAMBDA param : [param EXCEPT ![field] = value]))

removeParameter(prev, pathIndex, operationIndex, paramIndex) ==
    MapParameters(prev, pathIndex, operationIndex, LAMBDA ps : RemoveAt(ps, paramIndex))

importDocument(doc) == migrateDocument(doc)

resetDocument == InitialDocument

----------------------------------------------------------------------------
(* The hook as a state machine: Spec                                        *)
(*                                                                          *)
(* The handlers the user interface holds are those of the last render, and  *)
(* the indices it passes are indices of the document that render showed.    *)
(* Handlers may run one after another before the next render.               *)

MaxCalls == 2
MaxPaths == 2

\* What a session may find in localStorage: a legacy flat path, a path that
\* addPath, updatePath and four duplicatePath calls have filled, and two
\* paths of one and two operations.
LegacyStored ==
    [InitialDocument EXCEPT
        !.paths = <<[path |-> TplAX, method |-> "get", summary |-> TextD,
                     parameters |-> LegacyParams]>>]

FullPath ==
    [path |-> TplAX,
     operations |->
        <<Op("get", <<>>, <<FreshPathParam(NameX)>>, <<>>)>> \o
        SeqMap(LAMBDA m : Op(m, generateOperationId(m, TplAX),
                             <<FreshPathParam(NameX)>>, <<>>),
               SubSeq(AvailableMethods, 2, 5))]

FullStored == [InitialDocument EXCEPT !.paths = <<FullPath>>]

TwoPathsStored ==
    [InitialDocument EXCEPT
        !.paths = <<[path |-> TplYX,
                     operations |-> <<Op("get", <<>>, syncPathParameters(<<>>, TplYX), <<>>)>>],
                    [path |-> TplA,
                     operations |-> <<Op("get", <<>>, <<>>, <<>>),
                                      Op("post", generateOperationId("post", TplA),
                                         <<>>, <<>>)>>]>>]

\* getInitialDocument
StartDocuments ==
    {InitialDocument} \cup
    {migrateDocument(d) : d \in {LegacyStored, FullStored, TwoPathsStored}}

\* The templates typed into a path's field
HookTemplates == {TplAX, TplYX}

\* The edits made to a parameter: a field and its new value
ParamEdits == {<<"name", NameY>>, <<"in", "query">>, <<"required", FALSE>>}

\* Documents the import dialog hands over: exported files read back
ExportedDocs ==
    {[InitialDocument EXCEPT
        !.paths = <<[path |-> TplAX,
                     operations |-> <<Op("get", generateOperationId("get", TplAX), ps,
                                         <<Response("200", NameItem)>>)>>]>>] :
        ps \in {<<>>, <<Param(NameX, "path", TRUE)>>}}

ImportableDocs ==
    {importYamlDocument(buildYamlDocument(d)).document[1] : d \in ExportedDocs}

LastCall(op, pathIndex, operationIndex) ==
    [op |-> op, pathIndex |-> pathIndex, operationIndex |-> operationIndex,
     fresh |-> rendered = document]

\* One handler call: setDocument(next), no render yet
Call(op, pathIndex, operationIndex, next) ==
    /\ calls < MaxCalls
    /\ document' = next
    /\ last' = LastCall(op, pathIndex, operationIndex)
    /\ calls' = calls + 1
    /\ UNCHANGED <<rendered, pureVars>>

PathIndices == DOMAIN rendered.paths
OperationIndices(i) == DOMAIN rendered.paths[i].operations
ParameterIndices(i, j) == DOMAIN rendered.paths[i].operations[j].parameters

Init ==
    /\ document \in StartDocuments
    /\ rendered = document
    /\ last = [op |-> "init", pathIndex |-> 0, operationIndex |-> 0, fresh |-> TRUE]
    /\ calls = 0
    /\ pc = "hook"
    /\ arg = <<>>
    /\ res = NoResult

AddPath ==
    /\ Len(document.paths) < MaxPaths
    /\ Call("addPath", 0, 0, addPath(document))

UpdatePath ==
    \E i \in PathIndices, value \in HookTemplates :
        Call("updatePath", i, 0, updatePath(document, i, value))

RemovePath ==
    \E i \in PathIndices : Call("removePath", i, 0, removePath(document, i))

AddOperation ==
    \E i \in PathIndices, method \in Range(HTTP_METHODS) :
        Call("addOperation", i, 0, addOperation(document, i, method))

RemoveOperation ==
    \E i \in PathIndices : \E j \in OperationIndices(i) :
        Call("removeOperation", i, j, removeOperation(document, i, j))

DuplicatePath ==
    \E i \in PathIndices : \E j \in OperationIndices(i) :
        /\ nextMethod(rendered.paths[i]) = "" => Len(document.paths) < MaxPaths
        /\ Call("duplicatePath", i, j, duplicatePath(rendered, document, i, j))

ReorderPaths ==
    \E i \in PathIndices, k \in PathIndices :
        /\ i # k
        /\ Call("reorderPaths", i, k, reorderPaths(rendered, document, i, k))

AddParameter ==
    \E i \in PathIndices : \E j \in OperationIndices(i) :
        Call("addParameter", i, j, addParameter(document, i, j))

UpdateParameter ==
    \E i \in PathIndices : \E j \in OperationIndices(i) :
        \E k \in ParameterIndices(i, j), e \in ParamEdits :
            Call("updateParameter", i, j, updateParameter(document, i, j, k, e[1], e[2]))

RemoveParameter ==
    \E i \in PathIndices : \E j \in OperationIndices(i) :
        \E k \in ParameterIndices(i, j) :
            Call("removeParameter", i, j, removeParameter(document, i, j, k))

ImportDocument ==
    \E doc \in ImportableDocs :
        /\ calls < MaxCalls
        /\ Call("importDocument", 0, 0, importDocument(doc))

ResetDocument ==
    /\ calls < MaxCalls
    /\ Call("resetDocument", 0, 0, resetDocument)

\* React renders after the updates of an event: the handlers are made anew
Render ==
    /\ last.op \notin {"init", "render"}
    /\ rendered' = document
    /\ last' = [op |-> "render", pathIndex |-> 0, operationIndex |-> 0, fresh |-> TRUE]
    /\ UNCHANGED <<document, calls, pureVars>>

Next ==
    \/ AddPath
    \/ UpdatePath
    \/ RemovePath
    \/ AddOperation
    \/ RemoveOperation
    \/ DuplicatePath
    \/ ReorderPaths
    \/ AddParameter
    \/ UpdateParameter
    \/ RemoveParameter
    \/ ImportDocument
    \/ ResetDocument
    \/ Render

Spec == Init /\ [][Next]_vars

----------------------------------------------------------------------------
(* Properties of the hook                                                   *)

PathParamNames(op) ==
    {op.parameters[k].name : k \in {h \in DOMAIN op.parameters : op.parameters[h].in = "path"}}

\* C2 (as claimed): in every reachable document each operation has, for every
\* placeholder of its path's template, exactly one parameter with in = path
\* and required = true of that name, and no in = path parameter of a name the
\* template does not have.
C2_PathParamsMatchTemplate ==
    pc = "hook" =>
        \A i \in DOMAIN document.paths : \A j \in DOMAIN document.paths[i].operations :
            LET op == document.paths[i].operations[j]
                names == Range(extractPathParameters(document.paths[i].path))
            IN /\ \A n \in names :
                    Cardinality({k \in DOMAIN op.parameters :
                                    /\ op.parameters[k].name = n
                                    /\ op.parameters[k].in = "path"
                                    /\ op.parameters[k].required}) = 1
               /\ PathParamNames(op) \subseteq names

\* C3 (as claimed): in every reachable document, handlers run within one
\* render included, each path holds at most one operation per HTTP method.
C3_OneOperationPerMethod ==
    pc = "hook" =>
        \A i \in DOMAIN document.paths :
            \A j, k \in DOMAIN document.paths[i].operations :
                document.paths[i].operations[j].method = document.paths[i].operations[k].method
                    => j = k

\* C4: no reachable document has a path with zero operations, and
\* removeOperation on the only operation of a path removes that path.
C4_NoEmptyPath ==
    pc = "hook" =>
        /\ \A i \in DOMAIN document.paths : Len(document.paths[i].operations) > 0
        /\ ( /\ last.op = "removeOperation"
             /\ last.fresh
             /\ Len(rendered.paths[last.pathIndex].operations) = 1 )
           => document.paths = RemoveAt(rendered.paths, last.pathIndex)

C4_Witness ==
    /\ pc = "hook"
    /\ last.op = "removeOperation"
    /\ last.fresh
    /\ Len(rendered.paths) = 2
    /\ Len(rendered.paths[last.pathIndex].operations) = 1
    /\ Len(document.paths) = 1

\* The step is a duplicatePath call on an operation of the path the handler sees
DuplicateStep == pc = "hook" /\ last'.op = "duplicatePath" /\ calls' = calls + 1
DuplicatedPath == rendered.paths[last'.pathIndex]
DuplicatedOperation == DuplicatedPath.operations[last'.operationIndex]

\* C9: duplicatePath on an operation of a path that has all five methods
\* appends exactly one path, whose template is the original's followed by
\* "_copy" and whose only operation is the clone with the original
\* operationId followed by "_copy"; the paths there were are unchanged.
C9_DuplicateAsNewPath ==
    [][ (DuplicateStep /\ Range(HTTP_METHODS) \subseteq UsedMethods(DuplicatedPath)) =>
            /\ Len(document'.paths) = Len(document.paths) + 1
            /\ SubSeq(document'.paths, 1, Len(document.paths)) = document.paths
            /\ LET new == document'.paths[Len(document'.paths)]
               IN /\ new.path = DuplicatedPath.path \o <<"_", "c", "o", "p", "y">>
                  /\ Len(new.operations) = 1
                  /\ new.operations[1] =
                        [DuplicatedOperation EXCEPT
                            !.operationId = @ \o <<"_", "c", "o", "p", "y">>] ]_vars

C9_Witness ==
    /\ pc = "hook"
    /\ last.op = "duplicatePath"
    /\ last.fresh
    /\ Range(HTTP_METHODS) \subseteq UsedMethods(rendered.paths[last.pathIndex])
    /\ rendered.paths[last.pathIndex].operations[last.operationIndex].operationId # <<>>
    /\ Len(document.paths) = Len(rendered.paths) + 1
    /\ Len(document.paths[last.pathIndex].operations) = 5

----------------------------------------------------------------------------
(* importYamlDocument on any text: SpecImport                               *)
(*                                                                          *)
(* yaml.parse either throws or returns a value.  A node of the value where  *)
(* the importer expects a mapping is the mapping, null, or a text.  Reading *)
(* a property of null throws a TypeError; reading one of a text gives       *)
(* undefined.  Nothing in the importer catches what its parsers throw.      *)

NullNode == [shape |-> "null"]
TextNode == [shape |-> "text"]
MapNode(n) == [shape |-> "map", node |-> n]

\* What the properties of a text read as, node by node
EmptyParameter ==
    [name |-> JsUndefined, in |-> "", description |-> JsUndefined, required |-> FALSE,
     schema |-> [type |-> "", format |-> None]]

EmptyResponse == [description |-> JsUndefined, content |-> <<>>]

EmptySchema == [type |-> "", required |-> <<>>, properties |-> <<>>]

Cooked(n, empty) == IF n.shape = "map" THEN n.node ELSE empty

CookedOperation(op) ==
    [op EXCEPT
        !.parameters = SeqMap(LAMBDA n : Cooked(n, EmptyParameter), @),
        !.responses = SeqMap(LAMBDA r : [r EXCEPT !.value = Cooked(@, EmptyResponse)], @)]

\* a text has none of the method keys
CookedPathItem(n) ==
    IF n.shape = "map"
    THEN SeqMap(LAMBDA m : [m EXCEPT !.op = CookedOperation(@)], n.node)
    ELSE <<>>

CookedDocument(raw) ==
    [raw EXCEPT
        !.paths = SeqMap(LAMBDA e : [e EXCEPT !.item = CookedPathItem(@)], @),
        !.components.schemas =
            SeqMap(LAMBDA e : [e EXCEPT !.value = Cooked(@, EmptySchema)], @)]

\* p.schema, r.content of a null parameter or response (lines 177, 201)
OperationThrows(op) ==
    \/ \E k \in DOMAIN op.parameters : op.parameters[k].shape = "null"
    \/ \E k \in DOMAIN op.responses : op.responses[k].value.shape = "null"

\* s.required of a null schema (line 149), pathItem[method] of a null path
\* item (line 275), and the operations of the path items that are mappings
ImporterThrows(raw) ==
    \/ \E i \in DOMAIN raw.components.schemas : raw.components.schemas[i].value.shape = "null"
    \/ \E i \in DOMAIN raw.paths :
          \/ raw.paths[i].item.shape = "null"
          \/ /\ raw.paths[i].item.shape = "map"
             /\ \E j \in DOMAIN raw.paths[i].item.node :
                    OperationThrows(raw.paths[i].item.node[j].op)

Thrown == [threw |-> "TypeError"]

\* An array is an object none of whose document keys is there
EmptyParsed ==
    [openapi |-> JsUndefined,
     info |-> [title |-> JsUndefined, description |-> JsUndefined, version |-> JsUndefined],
     servers |-> <<>>, tags |-> <<>>, paths |-> <<>>,
     components |-> [securitySchemes |-> <<>>, schemas |-> <<>>, others |-> {}],
     security |-> <<>>]

\* importYamlDocument, given what yaml.parse did with the text
importParseOutcome(outcome) ==
    IF outcome.kind = "parseError"
    THEN [success |-> FALSE, document |-> None,
          errors |-> <<"YAML Parse Error">>, warnings |-> <<>>]
    ELSE IF outcome.kind = "scalar"
    THEN [success |-> FALSE, document |-> None,
          errors |-> <<"Invalid document: must be an object">>, warnings |-> <<>>]
    ELSE IF outcome.kind = "array" THEN importParsed(EmptyParsed)
    ELSE IF ImporterThrows(outcome.parsed) THEN Thrown
    ELSE importParsed(CookedDocument(outcome.parsed))

NodeShapes == {"map", "null", "text"}

ShapedNode(shape, n) ==
    IF shape = "map" THEN MapNode(n) ELSE IF shape = "null" THEN NullNode ELSE TextNode

TplItemsId == <<"/","i","/","{","i","d","}">>

RawParameter ==
    [name |-> NameX, in |-> "path", description |-> JsUndefined, required |-> TRUE,
     schema |-> [type |-> "string", format |-> None]]

RawResponse == [description |-> TextD, content |-> <<>>]

RawSchema == [type |-> "object", required |-> <<>>, properties |-> <<>>]

RawOperation(parameter, response, security) ==
    [tags |-> <<>>, summary |-> JsUndefined, operationId |-> TextAB,
     description |-> JsUndefined, deprecated |-> FALSE,
     parameters |-> <<parameter>>,
     requestBody |-> None,
     responses |-> <<[key |-> "200", value |-> response]>>,
     security |-> security]

\* The values yaml.parse returns for the texts of the model: mappings whose
\* nodes have every shape, with and without openapi, title and security
RawDocuments ==
    {[openapi |-> d.openapi,
      info |-> [title |-> d.title, description |-> JsUndefined, version |-> JsUndefined],
      servers |-> <<>>, tags |-> <<>>,
      paths |-> <<[key |-> TplItemsId,
                   item |-> ShapedNode(d.item,
                                <<[method |-> "get",
                                   op |-> RawOperation(ShapedNode(d.parameter, RawParameter),
                                                       ShapedNode(d.response, RawResponse),
                                                       d.security)]>>)]>>,
      components |-> [securitySchemes |-> <<>>,
                      schemas |-> IF d.schema = "absent" THEN <<>>
                                  ELSE <<[key |-> NameItem,
                                          value |-> ShapedNode(d.schema, RawSchema)]>>,
                      others |-> d.others],
      security |-> d.globalSecurity] :
        d \in [openapi : {DefaultOpenApi, JsUndefined},
               title : {TextAB, JsUndefined},
               item : NodeShapes,
               parameter : NodeShapes,
               response : NodeShapes,
               schema : NodeShapes \cup {"absent"},
               security : {None, Some(<<>>), Some(<<<<NameAuth>>>>)},
               globalSecurity : {<<>>, <<<<NameBearer>>>>, <<<<NameBearer>>, <<NameAuth>>>>},
               others : {{}, {"responses"}}]}

ParseOutcomes ==
    {[kind |-> "parseError"], [kind |-> "scalar"], [kind |-> "array"]} \cup
    {[kind |-> "mapping", parsed |-> raw] : raw \in RawDocuments}

InitImport ==
    /\ HookIdle
    /\ pc = "start"
    /\ arg \in ParseOutcomes
    /\ res = NoResult

RunImport ==
    /\ pc = "start"
    /\ res' = importParseOutcome(arg)
    /\ pc' = "done"
    /\ UNCHANGED <<hookVars, arg>>

NextImport == RunImport

SpecImport == InitImport /\ [][NextImport]_vars

\* C11 (as claimed): importYamlDocument never throws: a YAML parse failure
\* gives success = false with exactly one error and no document, and every
\* other failure, null or ill-shaped nodes included, is data in the result.
C11_ImporterNeverThrows ==
    pc = "done" =>
        /\ ~Has(res, "threw")
        /\ arg.kind = "parseError" =>
              /\ ~res.success
              /\ Len(res.errors) = 1
              /\ res.document = None

\* C12 (as claimed): for every text whose YAML parses the result carries a
\* document, also when errors is not empty, and success is true exactly when
\* errors is empty.
C12_DocumentAndSuccess ==
    (pc = "done" /\ arg.kind # "parseError") =>
        /\ ~Has(res, "threw")
        /\ res.document # None
        /\ res.success <=> (res.errors = <<>>)

\* The operation the importer made of the one operation of the parsed text
ImportedOperation == res.document[1].paths[1].operations[1]
ParsedOperation == arg.parsed.paths[1].item.node[1].op

OperationWasImported ==
    /\ pc = "done"
    /\ arg.kind = "mapping"
    /\ ~Has(res, "threw")
    /\ arg.parsed.paths[1].item.shape = "map"

\* C14: an imported operation's scheme names are those of its own security
\* list whenever it has one, an empty one included (then it has no scheme and
\* inherits nothing); with no list of its own it has the keys of the
\* document's global security entries.
C14_SecurityInheritance ==
    OperationWasImported =>
        LET own == ParsedOperation.security
            names == IF own # None THEN Concat(own[1]) ELSE Concat(arg.parsed.security)
        IN ImportedOperation.security = IF names = <<>> THEN None ELSE Some(names)

C14_Witness ==
    /\ OperationWasImported
    /\ ParsedOperation.security = Some(<<>>)
    /\ arg.parsed.security = <<<<NameBearer>>, <<NameAuth>>>>
    /\ ImportedOperation.security = None

----------------------------------------------------------------------------
(* extractSchemaRef run on its own: SpecRef                                 *)

ComponentsPrefix == <<"#","/","c","o","m","p","o","n","e","n","t","s","/">>

RefSections == {<<"s","c","h","e","m","a","s">>, <<"r","e","s","p","o","n","s","e","s">>}

RefFilePrefixes == {<<>>, <<"f">>, <<"h", ":", "/", "/", "x", "/">>, <<"a", ".", "y">>}

RefNames == {<<>>, <<"A">>, NameItem}

RefTails == {<<>>, <<"/", "b">>, <<"/">>}

RefInputs ==
    {JsUndefined} \cup
    {f \o ComponentsPrefix \o sec \o <<"/">> \o n \o t :
        f \in RefFilePrefixes, sec \in RefSections, n \in RefNames, t \in RefTails}

InitRef ==
    /\ HookIdle
    /\ pc = "start"
    /\ arg \in RefInputs
    /\ res = NoResult

RunRef ==
    /\ pc = "start"
    /\ res' = <<extractSchemaRef(arg)>>
    /\ pc' = "done"
    /\ UNCHANGED <<hookVars, arg>>

NextRef == RunRef

SpecRef == InitRef /\ [][NextRef]_vars

\* The text is #/components/schemas/<Name>, the name without a "/"
IsExactSchemaRef(ref) ==
    /\ Len(ref) > Len(RefPrefix)
    /\ SubSeq(ref, 1, Len(RefPrefix)) = RefPrefix
    /\ \A i \in (Len(RefPrefix) + 1)..Len(ref) : ref[i] # "/"

\* C13 (as claimed): a $ref of the exact form #/components/schemas/<Name>
\* gives <Name>, and a $ref of any other shape gives the empty reference.
C13_ExactRefOnly ==
    pc = "done" =>
        res[1] = IF IsExactSchemaRef(arg)
                 THEN SubSeq(arg, Len(RefPrefix) + 1, Len(arg))
                 ELSE <<>>

----------------------------------------------------------------------------
(* utils/openApiValidator.ts                                                *)
(*                                                                          *)
(* A diagnostic's path is kept as its template with the interpolated parts  *)
(* beside it: the path key, the verb, and the name the message is about.    *)

ValidationError(path, pathKey, op, subject, severity) ==
    [path |-> path, pathKey |-> pathKey, op |-> op, subject |-> subject,
     severity |-> severity]

StartsWith(text, prefix) ==
    Len(text) >= Len(prefix) /\ SubSeq(text, 1, Len(prefix)) = prefix

\* lines 81-98
ValidateOpenapi(spec) ==
    IF ~JsTruthy(spec.openapi)
    THEN <<ValidationError("openapi", <<>>, "", <<>>, "error")>>
    ELSE LET version == JsToString(spec.openapi)
         IN IF ~StartsWith(version, <<"3", ".", "0">>) /\ ~StartsWith(version, <<"3", ".", "1">>)
            THEN <<ValidationError("openapi", <<>>, "", version, "error")>>
            ELSE <<>>

\* lines 100-124
ValidateInfo(spec) ==
    IF spec.info = None
    THEN <<ValidationError("info", <<>>, "", <<>>, "error")>>
    ELSE (IF ~JsTruthy(spec.info[1].title)
          THEN <<ValidationError("info.title", <<>>, "", <<>>, "error")>> ELSE <<>>)
         \o (IF ~JsTruthy(spec.info[1].version)
             THEN <<ValidationError("info.version", <<>>, "", <<>>, "error")>> ELSE <<>>)

ValidatorMethods == <<"get", "post", "put", "patch", "delete", "options", "head", "trace">>

\* parameters.some(p => p.name === paramName && p.in === 'path'): "yes", "no",
\* or "throws" when a null entry is reached before a match
RECURSIVE SomeDefines(_, _)
SomeDefines(parameters, paramName) ==
    IF parameters = <<>> THEN "no"
    ELSE LET p == Head(parameters)
         IN IF p.shape = "null" THEN "throws"
            ELSE IF p.shape = "map" /\ p.node.name = paramName /\ p.node.in = "path"
            THEN "yes"
            ELSE SomeDefines(Tail(parameters), paramName)

\* lines 196-210: the placeholders, in the order of the path key, that no
\* parameter defines
UndefinedPlaceholders(operation, pathParams) ==
    SelectSeq(pathParams, LAMBDA name : SomeDefines(operation.parameters, name) = "no")

\* lines 174-211, for one verb that the path item has
ValidateOperation(pathKey, op, operation, pathParams) ==
    (IF ~JsTruthy(operation.operationId)
     THEN <<ValidationError("paths.{pathKey}.{op}.operationId", pathKey, op, <<>>, "warning")>>
     ELSE <<>>)
    \o (IF operation.responses = <<>>
        THEN <<ValidationError("paths.{pathKey}.{op}.responses", pathKey, op, <<>>, "error")>>
        ELSE <<>>)
    \o SeqMap(LAMBDA name : ValidationError("paths.{pathKey}.{op}.parameters", pathKey, op,
                                            name, "error"),
              UndefinedPlaceholders(operation, pathParams))

\* lines 157-214, for one path key
ValidatePathItem(pathKey, pathItem) ==
    LET pathParams == extractPathParameters(pathKey)
    IN (IF ~StartsWith(pathKey, <<"/">>)
        THEN <<ValidationError("paths.{pathKey}", pathKey, "", <<>>, "error")>> ELSE <<>>)
       \o (IF pathParams # <<>> /\ pathItem.shape = "map"
           THEN Concat(SeqMap(LAMBDA op : ValidateOperation(pathKey, op,
                                              MethodNode(pathItem.node, op), pathParams),
                              SelectSeq(ValidatorMethods,
                                        LAMBDA op : HasMethod(pathItem.node, op))))
           ELSE <<>>)

validatePaths(paths) ==
    Concat(SeqMap(LAMBDA e : ValidatePathItem(e.key, e.item), paths))

\* p.name of a null entry of parameters (line 200)
validatePathsThrows(paths) ==
    \E i \in DOMAIN paths :
        /\ paths[i].item.shape = "map"
        /\ \E j \in DOMAIN paths[i].item.node :
              /\ paths[i].item.node[j].method \in Range(ValidatorMethods)
              /\ \E name \in Range(extractPathParameters(paths[i].key)) :
                    SomeDefines(paths[i].item.node[j].op.parameters, name) = "throws"

\* lines 127-136
ValidatePathsObject(spec) ==
    IF spec.paths = None
    THEN <<ValidationError("paths", <<>>, "", <<>>, "warning")>>
    ELSE validatePaths(spec.paths[1])

\* lines 228-257, for one entry of components.schemas
ValidateSchema(schemaName, schema) ==
    IF schema.shape # "map" THEN <<>>
    ELSE (IF schema.node.type = "" /\ ~schema.node.composed
          THEN <<ValidationError("components.schemas.{schemaName}", <<>>, "", schemaName,
                                 "warning")>>
          ELSE <<>>)
         \o (IF schema.node.type = "object" /\ ~schema.node.properties
             THEN <<ValidationError("components.schemas.{schemaName}", <<>>, "", schemaName,
                                    "warning")>>
             ELSE <<>>)
         \o (IF schema.node.type = "array" /\ ~schema.node.items
             THEN <<ValidationError("components.schemas.{schemaName}.items", <<>>, "",
                                    schemaName, "error")>>
             ELSE <<>>)

validateSchemas(schemas) ==
    Concat(SeqMap(LAMBDA e : ValidateSchema(e.key, e.value), schemas))

\* lines 139-144
ValidateComponents(spec) ==
    IF spec.schemas = None THEN <<>> ELSE validateSchemas(spec.schemas[1])

performStructuralValidation(spec) ==
    ValidateOpenapi(spec) \o ValidateInfo(spec) \o ValidatePathsObject(spec)
        \o ValidateComponents(spec)

performStructuralValidationThrows(spec) ==
    spec.paths # None /\ validatePathsThrows(spec.paths[1])

DocumentError == ValidationError("document", <<>>, "", <<>>, "error")

WithSeverity(errors, severity) == SelectSeq(errors, LAMBDA e : e.severity = severity)

\* Mutant: a document with warnings is not valid.
ValidationResultOf_countWarnings(errors, warnings) ==
    [status |-> "returned", isValid |-> errors = <<>> /\ warnings = <<>>,
     errors |-> errors, warnings |-> warnings]

\* lines 64-68
ValidationResultOf(errors, warnings) ==
    [status |-> "returned", isValid |-> errors = <<>>,
     errors |-> errors, warnings |-> warnings]

\* lines 21-24 and 30-33: the two early returns
InvalidDocument ==
    [status |-> "returned", isValid |-> FALSE, errors |-> <<DocumentError>>,
     warnings |-> <<>>]

\* An exception that leaves validateOpenApiSpec: its promise rejects
Rejected == [status |-> "rejected"]

\* What an array, which has none of the keys, looks like to the structural pass
NoKeys == [openapi |-> JsUndefined, info |-> None, paths |-> None, schemas |-> None]

SpecOf(outcome) == IF outcome.kind = "mapping" THEN outcome.parsed ELSE NoKeys

\* lines 9-38: validateOpenApiSpec up to its await
validateBeforeAwait(outcome) ==
    IF outcome.kind \in {"parseError", "scalar"} THEN InvalidDocument
    ELSE IF performStructuralValidationThrows(SpecOf(outcome)) THEN Rejected
    ELSE LET structuralErrors == performStructuralValidation(SpecOf(outcome))
         IN [status |-> "awaiting",
             errors |-> WithSeverity(structuralErrors, "error"),
             warnings |-> WithSeverity(structuralErrors, "warning")]

\* lines 43-61: the errors added when the external check rejects
ExternalErrors(external) ==
    IF external.kind = "resolves" THEN <<>>
    ELSE IF external.kind = "details"
    THEN SeqMap(LAMBDA path : ValidationError(path, <<>>, "", <<>>, "error"),
                external.details)
    ELSE <<DocumentError>>

\* lines 40-68: validateOpenApiSpec from the settling of the external check
validateAfterAwait(awaiting, external) ==
    ValidationResultOf(awaiting.errors \o ExternalErrors(external), awaiting.warnings)

----------------------------------------------------------------------------
(* validateOpenApiSpec applied to the values yaml.parse returns.  The       *)
(* external check (@readme/openapi-parser, not part of the repository)      *)
(* resolves, rejects with a message, or rejects with a list of details.     *)

NameId == <<"i", "d">>
TplHealth == <<"/", "h">>
TplNoSlash == <<"h", "/", "{", "x", "}">>
Version31 == <<"3", ".", "1", ".", "0">>
Version2 == <<"2", ".", "0">>

ValidatorParameter(name, location) ==
    MapNode([name |-> name, in |-> location, description |-> JsUndefined,
             required |-> TRUE, schema |-> [type |-> "string", format |-> None]])

ValidatorParameterLists ==
    {<<>>,
     <<ValidatorParameter(NameX, "path")>>,
     <<ValidatorParameter(NameId, "path")>>,
     <<ValidatorParameter(NameX, "query")>>,
     <<TextNode>>,
     <<NullNode>>,
     <<ValidatorParameter(NameX, "path"), NullNode>>}

ValidatorOperations ==
    {[tags |-> <<>>, summary |-> JsUndefined, operationId |-> o.operationId,
      description |-> JsUndefined, deprecated |-> FALSE,
      parameters |-> o.parameters, requestBody |-> None,
      responses |-> o.responses, security |-> None] :
        o \in [operationId : {TextAB, JsUndefined},
               parameters : ValidatorParameterLists,
               responses : {<<>>, <<[key |-> "200", value |-> MapNode(RawResponse)]>>}]}

ValidatorPathKeys == {TplItemsId, TplAX, TplXX, TplHealth, TplNoSlash}

ValidatorPaths ==
    {None, Some(<<>>)}
    \cup {Some(<<[key |-> key, item |-> NullNode]>>) : key \in {TplAX, TplHealth}}
    \cup {Some(<<[key |-> key, item |-> MapNode(<<[method |-> method, op |-> op]>>)]>>) :
             key \in ValidatorPathKeys, method \in {"get", "trace"},
             op \in ValidatorOperations}

ValidatorSchemas ==
    {None, Some(<<[key |-> NameItem, value |-> NullNode]>>)}
    \cup {Some(<<[key |-> NameItem, value |-> MapNode(n)]>>) :
             n \in {[type |-> "", composed |-> FALSE, properties |-> FALSE, items |-> FALSE],
                    [type |-> "", composed |-> TRUE, properties |-> FALSE, items |-> FALSE],
                    [type |-> "object", composed |-> FALSE, properties |-> FALSE, items |-> FALSE],
                    [type |-> "object", composed |-> FALSE, properties |-> TRUE, items |-> FALSE],
                    [type |-> "array", composed |-> FALSE, properties |-> FALSE, items |-> FALSE],
                    [type |-> "array", composed |-> FALSE, properties |-> FALSE, items |-> TRUE]}}

ValidatorInfos ==
    {None, Some([title |-> TextAB, version |-> DefaultVersion]),
     Some([title |-> JsUndefined, version |-> DefaultVersion]),
     Some([title |-> TextAB, version |-> JsUndefined])}

\* A complete, well-formed document but for the field under study
WellFormedSpec(openapi) ==
    [openapi |-> openapi, info |-> Some([title |-> TextAB, version |-> DefaultVersion]),
     paths |-> Some(<<>>), schemas |-> None]

ValidatorSpecs ==
    {[WellFormedSpec(openapi) EXCEPT !.paths = paths] :
        openapi \in {DefaultOpenApi, JsUndefined}, paths \in ValidatorPaths}
    \cup {[WellFormedSpec(openapi) EXCEPT !.info = info, !.schemas = schemas] :
             openapi \in {DefaultOpenApi, Version31, Version2, JsUndefined, JsNum(<<"3">>)},
             info \in ValidatorInfos, schemas \in ValidatorSchemas}

ValidatorOutcomes ==
    {[kind |-> "parseError"], [kind |-> "scalar"], [kind |-> "array"]} \cup
    {[kind |-> "mapping", parsed |-> spec] : spec \in ValidatorSpecs}

ExternalOutcomes ==
    {[kind |-> "resolves", details |-> <<>>], [kind |-> "message", details |-> <<>>]}
    \cup {[kind |-> "details", details |-> d] : d \in {<<>>, <<"unknown">>, <<"paths", "info">>}}

InitValidate ==
    /\ HookIdle
    /\ pc = "start"
    /\ arg \in [parsed : ValidatorOutcomes, external : ExternalOutcomes]
    /\ res = NoResult

\* lines 9-38: up to the await, or to an early return or an exception
ValidateStart ==
    /\ pc = "start"
    /\ res' = validateBeforeAwait(arg.parsed)
    /\ pc' = IF res'.status = "awaiting" THEN "awaiting" ELSE "done"
    /\ UNCHANGED <<hookVars, arg>>

\* lines 40-68: the external check settles
ValidateSettle ==
    /\ pc = "awaiting"
    /\ res' = validateAfterAwait(res, arg.external)
    /\ pc' = "done"
    /\ UNCHANGED <<hookVars, arg>>

NextValidate == ValidateStart \/ ValidateSettle

SpecValidate == InitValidate /\ [][NextValidate]_vars

ValidationReturned == pc = "done" /\ res.status = "returned"

\* C15: a returned result is valid exactly when it has no errors, whatever its
\* warnings are; its errors all have severity error, its warnings severity warning.
C15_ValidIffNoErrors ==
    ValidationReturned =>
        /\ res.isValid = (res.errors = <<>>)
        /\ \A i \in DOMAIN res.errors : res.errors[i].severity = "error"
        /\ \A i \in DOMAIN res.warnings : res.warnings[i].severity = "warning"

C15_Witness ==
    /\ ValidationReturned
    /\ arg.parsed.kind = "mapping"
    /\ res.isValid
    /\ res.warnings # <<>>

\* C16: validation never rejects, and a stage that fails (the YAML parse, the
\* structural pass, the external check) adds exactly one error, at "document".
C16_NeverRejects ==
    pc = "done" =>
        /\ res.status = "returned"
        /\ arg.parsed.kind = "parseError" => res.errors = <<DocumentError>>
        /\ (arg.parsed.kind \in {"mapping", "array"} /\ arg.external.kind # "resolves") =>
              res.errors = WithSeverity(performStructuralValidation(SpecOf(arg.parsed)), "error")
                               \o <<DocumentError>>

\* The errors and warnings a finished validation has reported: none when it
\* rejected
ReportedErrors == IF res.status = "returned" THEN res.errors ELSE <<>>

ReportedWarnings == IF res.status = "returned" THEN res.warnings ELSE <<>>

ValidatedPaths ==
    IF arg.parsed.kind = "mapping" /\ arg.parsed.parsed.paths # None
    THEN arg.parsed.parsed.paths[1] ELSE <<>>

Reports(diagnostics, path, pathKey, op) ==
    \E i \in DOMAIN diagnostics :
        /\ diagnostics[i].path = path
        /\ diagnostics[i].pathKey = pathKey
        /\ diagnostics[i].op = op

\* C17: in a returned result, every verb under every path key, with or without
\* placeholders, has a warning when its operationId is absent and an error when
\* its responses are absent or empty.
C17_EveryOperationChecked ==
    ValidationReturned =>
        \A i \in DOMAIN ValidatedPaths :
            LET e == ValidatedPaths[i]
            IN e.item.shape = "map" =>
                  \A j \in DOMAIN e.item.node :
                      LET o == e.item.node[j]
                      IN /\ ~JsTruthy(o.op.operationId) =>
                               Reports(res.warnings, "paths.{pathKey}.{op}.operationId",
                                       e.key, o.method)
                         /\ o.op.responses = <<>> =>
                               Reports(res.errors, "paths.{pathKey}.{op}.responses",
                                       e.key, o.method)

Occurrences(names, name) == Cardinality({k \in DOMAIN names : names[k] = name})

HasPathParameter(parameters, name) ==
    \E k \in DOMAIN parameters :
        /\ parameters[k].shape = "map"
        /\ parameters[k].node.name = name
        /\ parameters[k].node.in = "path"

ParameterErrors(pathKey, op, name) ==
    Cardinality({k \in DOMAIN ReportedErrors :
                    /\ ReportedErrors[k].path = "paths.{pathKey}.{op}.parameters"
                    /\ ReportedErrors[k].pathKey = pathKey
                    /\ ReportedErrors[k].op = op
                    /\ ReportedErrors[k].subject = name})

\* C18: when a validation is over, each placeholder of a path key with no
\* parameter of its name and in = path on an operation has one error naming it
\* for that operation, and a placeholder that has such a parameter has none;
\* /i/{id} with one operation without parameters has exactly one such error.
C18_OneErrorPerPlaceholder ==
    pc = "done" =>
        \A i \in DOMAIN ValidatedPaths :
            LET e == ValidatedPaths[i]
                placeholders == extractPathParameters(e.key)
            IN e.item.shape = "map" =>
                  \A j \in DOMAIN e.item.node :
                      \A name \in Range(placeholders) :
                          LET o == e.item.node[j]
                          IN ParameterErrors(e.key, o.method, name) =
                                IF HasPathParameter(o.op.parameters, name) THEN 0
                                ELSE Occurrences(placeholders, name)

HasOpenapiError ==
    \E i \in DOMAIN ReportedErrors : ReportedErrors[i].path = "openapi"

BadOpenapi(openapi) ==
    \/ ~JsTruthy(openapi)
    \/ /\ ~StartsWith(JsToString(openapi), <<"3", ".", "0">>)
       /\ ~StartsWith(JsToString(openapi), <<"3", ".", "1">>)

\* C19: when a validation of a mapping is over, it has an error with path
\* "openapi" exactly when openapi is absent or does not start with 3.0 or 3.1;
\* the document that is well formed but for a missing openapi has exactly one
\* error, the one with path "openapi".
C19_OpenapiError ==
    (pc = "done" /\ arg.parsed.kind = "mapping") =>
        /\ HasOpenapiError <=> BadOpenapi(arg.parsed.parsed.openapi)
        /\ arg.parsed.parsed = WellFormedSpec(JsUndefined) =>
              /\ Len(ReportedErrors) = 1
              /\ ReportedErrors[1].path = "openapi"

----------------------------------------------------------------------------
(* components/SwaggerForm/LivePreview.tsx: the debounced validation.        *)
(*                                                                          *)
(* arg is the yamlContent prop, res the validationResult state, and pc the  *)
(* rest of the component: the pending debounce timer with the content its   *)
(* closure holds, the validations awaiting the external check in the order  *)
(* they were started, isValidating, the content of the latest runValidation *)
(* call, and the number of changes of the prop so far.                      *)

MaxEdits == 2

NullParameterSpec ==
    [WellFormedSpec(DefaultOpenApi) EXCEPT
        !.paths = Some(<<[key |-> TplAX,
                          item |-> MapNode(<<[method |-> "get",
                                              op |-> CHOOSE o \in ValidatorOperations :
                                                        /\ o.parameters = <<NullNode>>
                                                        /\ o.operationId = TextAB
                                                        /\ o.responses # <<>>]>>)]>>)]

\* The texts the preview is given, as what yaml.parse returns for them; the
\* empty text is never validated
PreviewTexts ==
    {[kind |-> "empty"], [kind |-> "parseError"],
     [kind |-> "mapping", parsed |-> WellFormedSpec(DefaultOpenApi)],
     [kind |-> "mapping", parsed |-> WellFormedSpec(JsUndefined)],
     [kind |-> "mapping", parsed |-> NullParameterSpec]}

\* runValidation's catch block (lines 85-90)
CaughtResult ==
    [status |-> "returned", isValid |-> FALSE, errors |-> <<DocumentError>>,
     warnings |-> <<>>]

InitPreview ==
    /\ HookIdle
    /\ arg \in PreviewTexts
    /\ res = NoResult
    /\ pc = [timer |-> Some(arg), inFlight |-> <<>>, isValidating |-> FALSE,
             validated |-> None, edits |-> 0]

\* The parent renders another text: the effect's cleanup clears the pending
\* timer and the effect sets a new one (lines 96-104)
ChangeContent ==
    /\ pc.edits < MaxEdits
    /\ \E text \in PreviewTexts \ {arg} :
          /\ arg' = text
          /\ pc' = [pc EXCEPT !.timer = Some(text), !.edits = @ + 1]
    /\ UNCHANGED <<hookVars, res>>

\* The timer fires on an empty text: nothing is validated (line 98)
TimerSkips ==
    /\ pc.timer # None
    /\ pc.timer[1].kind = "empty"
    /\ pc' = [pc EXCEPT !.timer = None]
    /\ UNCHANGED <<hookVars, arg, res>>

\* The timer fires and validateOpenApiSpec returns or throws before its await:
\* runValidation's continuation runs before any other task (lines 80-93)
ValidateAtOnce ==
    /\ pc.timer # None
    /\ pc.timer[1].kind # "empty"
    /\ validateBeforeAwait(pc.timer[1]).status # "awaiting"
    /\ res' = IF validateBeforeAwait(pc.timer[1]).status = "rejected"
              THEN CaughtResult ELSE validateBeforeAwait(pc.timer[1])
    /\ pc' = [pc EXCEPT !.timer = None, !.isValidating = FALSE,
                        !.validated = Some(pc.timer[1])]
    /\ UNCHANGED <<hookVars, arg>>

\* The timer fires and validateOpenApiSpec reaches its await (lines 81-83)
StartValidation ==
    /\ pc.timer # None
    /\ pc.timer[1].kind # "empty"
    /\ validateBeforeAwait(pc.timer[1]).status = "awaiting"
    /\ pc' = [pc EXCEPT !.timer = None, !.isValidating = TRUE,
                        !.validated = Some(pc.timer[1]),
                        !.inFlight = Append(@, validateBeforeAwait(pc.timer[1]))]
    /\ UNCHANGED <<hookVars, arg, res>>

\* The external check of one of the validations settles: setValidationResult,
\* then setIsValidating(false) (lines 83-84 and 92)
FinishValidation ==
    /\ \E i \in DOMAIN pc.inFlight, external \in ExternalOutcomes :
          /\ res' = validateAfterAwait(pc.inFlight[i], external)
          /\ pc' = [pc EXCEPT !.inFlight = RemoveAt(@, i), !.isValidating = FALSE]
    /\ UNCHANGED <<hookVars, arg>>

NextPreview ==
    \/ ChangeContent
    \/ TimerSkips
    \/ ValidateAtOnce
    \/ StartValidation
    \/ FinishValidation

SpecPreview == InitPreview /\ [][NextPreview]_vars

\* The results runValidation can display for a text
ResultsFor(text) ==
    LET before == validateBeforeAwait(text)
    IN IF before.status = "rejected" THEN {CaughtResult}
       ELSE IF before.status = "returned" THEN {before}
       ELSE {validateAfterAwait(before, external) : external \in ExternalOutcomes}

\* C20: once no validation is in flight, the displayed result is a result of
\* the text of the latest runValidation call, whatever order the validations
\* finished in.
C20_LastCallWins ==
    (pc.validated # None /\ pc.inFlight = <<>>) => res \in ResultsFor(pc.validated[1])

----------------------------------------------------------------------------
(* buildYamlDocument run on its own: SpecSerialize                          *)

\* path.operations.forEach (line 122) on a path that the migration left
\* without operations[]
buildYamlDocumentThrows(doc) ==
    \E i \in DOMAIN ensureOperationsFormat(doc).paths :
        ~Has(ensureOperationsFormat(doc).paths[i], "operations")

\* A property of type array that has no items
ArrayWithoutItems ==
    [name |-> NameX, type |-> "array", format |-> <<>>, description |-> <<>>,
     example |-> <<>>, required |-> FALSE, ref |-> <<>>, enumValues |-> <<>>,
     nullable |-> FALSE, default |-> <<>>]

\* A request body whose content type is missing
BodyWithoutContentType ==
    [description |-> <<>>, required |-> TRUE, contentType |-> "", schemaRef |-> NameItem]

\* Paths as the stored documents of older versions have them: flat, with a
\* method, with an empty method, or with no method
SerializePaths ==
    {<<>>,
     <<[path |-> TplA, operations |-> <<>>]>>,
     <<[path |-> TplA, operations |-> <<NewOperation>>]>>,
     <<[path |-> TplA,
        operations |-> <<[NewOperation EXCEPT !.requestBody = Some(BodyWithoutContentType)]>>]>>,
     <<[path |-> TplA, method |-> "get"]>>,
     <<[path |-> TplA, method |-> "get", summary |-> TextAB, description |-> TextLines]>>,
     <<[path |-> TplA, method |-> ""]>>,
     <<[path |-> TplA]>>,
     <<[path |-> TplA, operations |-> <<NewOperation>>], [path |-> TplAX]>>}

SerializeDocs ==
    {[InitialDocument EXCEPT
        !.info.title = d.text,
        !.info.description = d.text,
        !.servers = IF d.server THEN <<[url |-> TextAB, description |-> d.text]>> ELSE <<>>,
        !.tags = IF d.tag THEN <<[name |-> TextAB, description |-> d.text]>> ELSE <<>>,
        !.securitySchemes = d.schemes,
        !.paths = d.paths,
        !.schemas = d.schemas] :
     d \in [text : {<<>>, TextAB, TextQuote, TextLines},
            server : BOOLEAN,
            tag : BOOLEAN,
            schemes : {<<>>, <<BearerScheme>>,
                       <<BearerScheme, [BearerScheme EXCEPT !.name = NameBearer]>>},
            paths : SerializePaths,
            schemas : {<<>>,
                       <<[name |-> NameItem, type |-> "object", properties |-> <<>>,
                          isTemplate |-> FALSE]>>,
                       <<[name |-> NameItem, type |-> "object",
                          properties |-> <<ArrayWithoutItems>>, isTemplate |-> FALSE]>>,
                       <<[name |-> NameItem, type |-> "object",
                          properties |-> <<[Property(NameX, "string", FALSE, <<>>) EXCEPT
                                               !.description = TextLines]>>,
                          isTemplate |-> FALSE]>>}]}

InitSerialize ==
    /\ HookIdle
    /\ pc = "start"
    /\ arg \in SerializeDocs
    /\ res = NoResult

RunSerialize ==
    /\ pc = "start"
    /\ res' = IF buildYamlDocumentThrows(arg) THEN Thrown ELSE buildYamlDocument(arg)
    /\ pc' = "done"
    /\ UNCHANGED <<hookVars, arg>>

NextSerialize == RunSerialize

SpecSerialize == InitSerialize /\ [][NextSerialize]_vars

Serialized == pc = "done" /\ res # Thrown

\* C21: buildYamlDocument returns text for every document: no document makes it
\* throw; an array property without items is written with items of type string,
\* and a request body without content type under application/json.
C21_SerializerTotal ==
    pc = "done" =>
        /\ res # Thrown
        /\ \A i \in DOMAIN arg.schemas :
              \A j \in DOMAIN arg.schemas[i].properties :
                  arg.schemas[i].properties[j] = ArrayWithoutItems =>
                      res.components.schemas[i].value.properties[j].value.items
                          = Some([ref |-> NotEmitted, type |-> "string"])
        /\ \A i \in DOMAIN arg.paths :
              (Has(arg.paths[i], "operations") /\ arg.paths[i].operations # <<>>
               /\ arg.paths[i].operations[1].requestBody = Some(BodyWithoutContentType)) =>
                  res.paths[i].item[1].op.requestBody[1].content[1].key = "application/json"

\* The names of a list, in its order, that the condition keeps
Kept(names, conditions) == SelectSeq(names, LAMBDA n : conditions[n])

\* C22: servers, tags, paths and components are written exactly when non-empty
\* and in that order, components holding securitySchemes before schemas; the
\* closing security list is written exactly when there is a security scheme,
\* with one entry per scheme in the schemes' order.
C22_SectionsWhenNonEmpty ==
    Serialized =>
        /\ res.sections =
              <<"openapi", "info">>
              \o Kept(<<"servers", "tags", "paths", "components", "security">>,
                      [servers |-> arg.servers # <<>>,
                       tags |-> arg.tags # <<>>,
                       paths |-> arg.paths # <<>>,
                       components |-> arg.schemas # <<>> \/ arg.securitySchemes # <<>>,
                       security |-> arg.securitySchemes # <<>>])
        /\ res.componentSections =
              Kept(<<"securitySchemes", "schemas">>,
                   [securitySchemes |-> arg.securitySchemes # <<>>,
                    schemas |-> arg.schemas # <<>>])
        /\ Len(res.security) = Len(arg.securitySchemes)
        /\ \A i \in DOMAIN res.security : res.security[i] = <<arg.securitySchemes[i].name>>

C22_Witness ==
    /\ Serialized
    /\ arg.schemas # <<>>
    /\ arg.securitySchemes = <<>>
    /\ arg.servers # <<>>
    /\ arg.tags = <<>>
    /\ res.sections = <<"openapi", "info", "servers", "components">>

\* The quoting rule: a block scalar with every line at the indent, a quoted
\* line with its quotes doubled, or '' for the empty string
QuotedScalar(value, indent) ==
    IF value = <<>> THEN <<"'", "'">>
    ELSE IF \E i \in DOMAIN value : value[i] = "\n"
    THEN <<"|", "\n">> \o
         JoinWith(SeqMap(LAMBDA line : Spaces(indent) \o line, Split(value, "\n")), <<"\n">>)
    ELSE <<"'">> \o DoubleQuotes(value) \o <<"'">>

\* C23: every string the serializer writes follows the quoting rule, the lines
\* of a block scalar being indented one level (two columns) deeper than the key
\* of their field: the title and the description of info (key at column 2), the
\* name and the description of a tag (4), the description of a server (4) and
\* of a schema property (10).
C23_QuotingRule ==
    Serialized =>
        /\ res.info.title = QuotedScalar(arg.info.title, 4)
        /\ res.info.description = QuotedScalar(arg.info.description, 4)
        /\ \A i \in DOMAIN arg.tags :
              /\ res.tags[i].name = QuotedScalar(arg.tags[i].name, 6)
              /\ res.tags[i].description = QuotedScalar(arg.tags[i].description, 6)
        /\ \A i \in DOMAIN arg.servers :
              arg.servers[i].description # <<>> =>
                  res.servers[i].description = QuotedScalar(arg.servers[i].description, 6)
        /\ \A i \in DOMAIN arg.schemas :
              \A j \in DOMAIN arg.schemas[i].properties :
                  arg.schemas[i].properties[j].description # <<>> =>
                      res.components.schemas[i].value.properties[j].value.description
                          = QuotedScalar(arg.schemas[i].properties[j].description, 12)

----------------------------------------------------------------------------
(* hooks/useSwaggerDocument.ts: the handlers of schemas, tags and responses *)

NameError == <<"E", "r", "r", "o", "r">>
NamePagination == <<"P", "a", "g", "i", "n", "a", "t", "i", "o", "n">>
NameErrorDetail == <<"E", "r", "r", "o", "r", "D", "e", "t", "a", "i", "l">>
NameJsonApiVersion == <<"J", "s", "o", "n", "A", "p", "i", "V", "e", "r", "s", "i", "o", "n">>

\* A property of a template: its description and example are single pieces
TemplateProperty(name, type, description, example, ref, items) ==
    [name |-> <<name>>, type |-> type, description |-> <<description>>,
     example |-> IF example = "" THEN <<>> ELSE <<example>>, ref |-> ref,
     items |-> items, enumValues |-> <<>>]

StringItems == [type |-> "string", ref |-> <<>>]

schemaTemplates ==
    [jsonApiVersion |->
        [name |-> NameJsonApiVersion, type |-> "object", isTemplate |-> TRUE,
         properties |->
            <<TemplateProperty("version", "string", "JSON API version", "1.0", <<>>,
                               StringItems)>>],
     errorDetail |->
        [name |-> NameErrorDetail, type |-> "object", isTemplate |-> TRUE,
         properties |->
            <<TemplateProperty("status", "string", "HTTP status code of the error", "401",
                               <<>>, StringItems),
              TemplateProperty("code", "string", "Application-specific error code", "02x102",
                               <<>>, StringItems),
              TemplateProperty("id", "string", "Unique identifier for the error",
                               "2897ff46-271a-4add-a5b7-8e569bab7352", <<>>, StringItems)>>],
     error |->
        [name |-> NameError, type |-> "object", isTemplate |-> TRUE,
         properties |->
            <<TemplateProperty("jsonapi", "object", "JSON API version information", "",
                               NameJsonApiVersion, StringItems),
              TemplateProperty("errors", "array", "List of errors", "", <<>>,
                               [type |-> "object", ref |-> NameErrorDetail])>>],
     pagination |->
        [name |-> NamePagination, type |-> "object", isTemplate |-> TRUE,
         properties |->
            <<TemplateProperty("page", "integer", "Current page number", "1", <<>>,
                               StringItems),
              TemplateProperty("pageSize", "integer", "Number of items per page", "20",
                               <<>>, StringItems),
              TemplateProperty("totalPages", "integer", "Total number of pages", "10", <<>>,
                               StringItems),
              TemplateProperty("totalItems", "integer", "Total number of items", "200",
                               <<>>, StringItems)>>]]

NewSchema == [name |-> <<>>, type |-> "object", properties |-> <<>>]

addSchema(prev) == [prev EXCEPT !.schemas = Append(@, NewSchema)]

addTemplateSchema(prev, templateKey) ==
    IF templateKey \in DOMAIN schemaTemplates
    THEN [prev EXCEPT !.schemas = Append(@, schemaTemplates[templateKey])]
    ELSE prev

\* updateSchema with field = 'name'
updateSchema(prev, index, value) ==
    [prev EXCEPT !.schemas = MapAt(@, index, LAMBDA schema : [schema EXCEPT !.name = value])]

removeSchema(prev, index) == [prev EXCEPT !.schemas = RemoveAt(@, index)]

\* the copy is made of the closure's schema and appended to prev's
duplicateSchema(closure, prev, index) ==
    [prev EXCEPT !.schemas =
        Append(@, [closure.schemas[index] EXCEPT !.name = @ \o CopySuffix])]

\* the reordered list is built from the closure's schemas
reorderSchemas(closure, prev, startIndex, endIndex) ==
    [prev EXCEPT !.schemas =
        InsertAt(RemoveAt(closure.schemas, startIndex), endIndex,
                 closure.schemas[startIndex])]

addTag(prev) == [prev EXCEPT !.tags = Append(@, [name |-> <<>>, description |-> <<>>])]

\* the reordered list is built from prev's tags; splice(oldIndex, 1) of an
\* index past the end removes nothing and undefined is inserted
reorderTags(prev, oldIndex, newIndex) ==
    [prev EXCEPT !.tags =
        IF oldIndex \in DOMAIN @
        THEN InsertAt(RemoveAt(@, oldIndex), IF newIndex > Len(@) THEN Len(@) ELSE newIndex,
                      @[oldIndex])
        ELSE Append(@, JsUndefined)]

CommonResponse(statusCode, description, schemaRef) ==
    [statusCode |-> statusCode, description |-> <<description>>, schemaRef |-> schemaRef]

\* the schema named Error is looked for in the closure's document
commonResponses(closure) ==
    LET schemaRef == IF \E i \in DOMAIN closure.schemas : closure.schemas[i].name = NameError
                     THEN NameError ELSE <<>>
    IN <<CommonResponse("400", "Bad request - Invalid parameters", schemaRef),
         CommonResponse("401", "Unauthorized - Invalid or missing authentication token",
                        schemaRef),
         CommonResponse("403", "Forbidden - Access denied", schemaRef),
         CommonResponse("404", "Not found - Resource does not exist", schemaRef),
         CommonResponse("500", "Internal server error - An unexpected error occurred",
                        schemaRef)>>

addCommonErrorResponses(closure, prev, pathIndex, operationIndex) ==
    [prev EXCEPT !.paths =
        MapAt(@, pathIndex,
              LAMBDA path :
                [path EXCEPT !.operations =
                    MapAt(@, operationIndex,
                          LAMBDA op : [op EXCEPT !.responses = @ \o commonResponses(closure)])])]

----------------------------------------------------------------------------
(* The schema, tag and response handlers as a state machine: SpecSchemas    *)

MaxSchemas == 3

ItemSchema ==
    [name |-> NameItem, type |-> "object",
     properties |-> <<Property(NameX, "string", FALSE, <<>>)>>, isTemplate |-> FALSE]

OnePath ==
    <<[path |-> TplA,
       operations |-> <<Op("get", <<>>, <<>>, <<Response("200", NameItem)>>),
                        Op("post", <<>>, <<>>, <<>>)>>]>>

SchemaStartDocuments ==
    {[InitialDocument EXCEPT !.paths = OnePath, !.schemas = schemas, !.tags = tags] :
        schemas \in {<<>>, <<ItemSchema>>, <<ItemSchema, schemaTemplates.error>>},
        tags \in {<<>>, <<[name |-> NameX, description |-> <<>>],
                          [name |-> NameY, description |-> <<>>]>>}}

ImportableSchemaDocs ==
    {importYamlDocument(buildYamlDocument(
        [InitialDocument EXCEPT !.schemas = <<ItemSchema>>])).document[1]}

SchemaIndices == DOMAIN rendered.schemas
TagIndices == DOMAIN rendered.tags

InitSchemas ==
    /\ document \in SchemaStartDocuments
    /\ rendered = document
    /\ last = [op |-> "init", pathIndex |-> 0, operationIndex |-> 0, fresh |-> TRUE]
    /\ calls = 0
    /\ pc = "hook"
    /\ arg = <<>>
    /\ res = NoResult

AddSchema ==
    /\ Len(document.schemas) < MaxSchemas
    /\ Call("addSchema", 0, 0, addSchema(document))

AddTemplateSchema ==
    \E templateKey \in {"error", "pagination", "none"} :
        /\ Len(document.schemas) < MaxSchemas
        /\ Call("addTemplateSchema", 0, 0, addTemplateSchema(document, templateKey))

UpdateSchema ==
    \E i \in SchemaIndices, value \in {NameItem, NameError} :
        Call("updateSchema", i, 0, updateSchema(document, i, value))

RemoveSchema ==
    \E i \in SchemaIndices : Call("removeSchema", i, 0, removeSchema(document, i))

DuplicateSchema ==
    \E i \in SchemaIndices :
        /\ Len(document.schemas) < MaxSchemas
        /\ Call("duplicateSchema", i, 0, duplicateSchema(rendered, document, i))

ReorderSchemas ==
    \E i \in SchemaIndices, k \in SchemaIndices :
        /\ i # k
        /\ Call("reorderSchemas", i, k, reorderSchemas(rendered, document, i, k))

AddTag ==
    /\ Len(document.tags) < MaxSchemas
    /\ Call("addTag", 0, 0, addTag(document))

ReorderTags ==
    \E i \in TagIndices, k \in TagIndices :
        /\ i # k
        /\ Call("reorderTags", i, k, reorderTags(document, i, k))

AddCommonErrorResponses ==
    \E i \in PathIndices : \E j \in OperationIndices(i) :
        Call("addCommonErrorResponses", i, j,
             addCommonErrorResponses(rendered, document, i, j))

ImportSchemas ==
    \E doc \in ImportableSchemaDocs :
        /\ calls < MaxCalls
        /\ Call("importDocument", 0, 0, importDocument(doc))

NextSchemas ==
    \/ AddSchema
    \/ AddTemplateSchema
    \/ UpdateSchema
    \/ RemoveSchema
    \/ DuplicateSchema
    \/ ReorderSchemas
    \/ AddTag
    \/ ReorderTags
    \/ AddCommonErrorResponses
    \/ ImportSchemas
    \/ Render

SpecSchemas == InitSchemas /\ [][NextSchemas]_vars

\* C24: no two schemas of the document have the same name.
C24_SchemaNamesUnique ==
    pc = "hook" =>
        \A i, j \in DOMAIN document.schemas :
            document.schemas[i].name = document.schemas[j].name => i = j

HasErrorSchema(doc) == \E i \in DOMAIN doc.schemas : doc.schemas[i].name = NameError

CommonErrorStep ==
    pc = "hook" /\ last'.op = "addCommonErrorResponses" /\ calls' = calls + 1

\* C25: addCommonErrorResponses appends to the operation's responses five
\* entries, 400, 401, 403, 404 and 500 in that order, whose schemaRef is Error
\* when the document the update is applied to has a schema named Error and is
\* empty otherwise; the responses there were, the other operations and the
\* other paths are unchanged.
C25_CommonErrorResponses ==
    [][ CommonErrorStep =>
          /\ [document' EXCEPT !.paths = document.paths] = document
          /\ Len(document'.paths) = Len(document.paths)
          /\ \A i \in DOMAIN document.paths :
                /\ document'.paths[i].path = document.paths[i].path
                /\ Len(document'.paths[i].operations) = Len(document.paths[i].operations)
                /\ \A j \in DOMAIN document.paths[i].operations :
                      LET before == document.paths[i].operations[j]
                          after == document'.paths[i].operations[j]
                      IN IF i = last'.pathIndex /\ j = last'.operationIndex
                         THEN /\ [after EXCEPT !.responses = before.responses] = before
                              /\ Len(after.responses) = Len(before.responses) + 5
                              /\ SubSeq(after.responses, 1, Len(before.responses))
                                    = before.responses
                              /\ \A k \in 1..5 :
                                    LET added == after.responses[Len(before.responses) + k]
                                    IN /\ added.statusCode
                                             = <<"400", "401", "403", "404", "500">>[k]
                                       /\ added.schemaRef
                                             = IF HasErrorSchema(document) THEN NameError
                                               ELSE <<>>
                         ELSE after = before ]_vars

IsPermutation(s, t) ==
    /\ Len(s) = Len(t)
    /\ \E f \in [DOMAIN s -> DOMAIN s] :
          /\ \A a, b \in DOMAIN s : f[a] = f[b] => a = b
          /\ \A a \in DOMAIN s : s[a] = t[f[a]]

ReorderStep ==
    pc = "hook" /\ last'.op \in {"reorderSchemas", "reorderTags"} /\ calls' = calls + 1

\* C28: a reorder leaves its collection a permutation of the collection it is
\* applied to, so that what an earlier update added or changed is still there.
C28_ReorderKeepsEdits ==
    [][ ReorderStep =>
          /\ IsPermutation(document'.schemas, document.schemas)
          /\ IsPermutation(document'.tags, document.tags) ]_vars

-----------------------------------------------------------------------------
(* findLineNumber run on its own: SpecLine                                 *)

Quotes == {"'", "\""}

\* String.prototype.trimStart
TrimStart(line) == SubSeq(line, LeadingSpaces(line) + 1, Len(line))

\* keyPattern.test(trimmedLine) for ^['"]?<searchKey>['"]?\s*: , the key taken
\* literally (escapeRegExp): each quote is optional on its own
keyPatternTest(searchKey, trimmedLine) ==
    \E open \in {0, 1}, close \in {0, 1} :
        LET afterKey == open + Len(searchKey)
            rest == TrimStart(SubSeq(trimmedLine, afterKey + close + 1, Len(trimmedLine)))
        IN /\ Len(trimmedLine) >= afterKey + close
           /\ open = 1 => trimmedLine[1] \in Quotes
           /\ SubSeq(trimmedLine, open + 1, afterKey) = searchKey
           /\ close = 1 => trimmedLine[afterKey + 1] \in Quotes
           /\ rest # <<>>
           /\ Head(rest) = ":"

\* The loop of findLineNumber from line i on (i counts from 1, as the result)
RECURSIVE ScanLines(_, _, _, _, _)
ScanLines(lines, path, i, currentIndent, pathIndex) ==
    IF i > Len(lines) THEN None
    ELSE LET line == lines[i]
             trimmedLine == TrimStart(line)
             lineIndent == Len(line) - Len(trimmedLine)
         IN IF trimmedLine = <<>> \/ Head(trimmedLine) = "#"
            THEN ScanLines(lines, path, i + 1, currentIndent, pathIndex)
            ELSE IF keyPatternTest(path[pathIndex], trimmedLine) /\ lineIndent >= currentIndent
            THEN IF pathIndex + 1 > Len(path) THEN Some(i)
                 ELSE ScanLines(lines, path, i + 1, lineIndent, pathIndex + 1)
            ELSE ScanLines(lines, path, i + 1, currentIndent, pathIndex)

findLineNumber(yamlContent, path) ==
    IF path = <<>> THEN None
    ELSE ScanLines(Split(yamlContent, "\n"), path, 1, 0, 1)

MaxLines == 3

SegmentA == <<"a">>
SegmentB == <<"b">>

\* Lines of a YAML text: keys plain and quoted, at two depths, a key that only
\* starts with the segment, a key that ends in a quote, a comment, a blank
\* line, the head of a block scalar and a line of text that has a colon
LinePool ==
    { <<"a", ":">>,
      <<"b", ":">>,
      <<" ", "b", ":">>,
      <<"'", "a", "'", ":">>,
      <<"\"", "b", "\"", " ", ":">>,
      <<"a", "'", ":">>,
      <<"a", "b", ":">>,
      <<"#", "a", ":">>,
      <<>>,
      <<"d", ":", " ", "|">>,
      <<" ", "a", ":", " ", "x">> }

LineTexts ==
    { JoinWith(lines, <<"\n">>) : lines \in UNION { [1..n -> LinePool] : n \in 0..MaxLines } }

SegmentPaths == { <<>>, <<SegmentA>>, <<SegmentB>>, <<SegmentA, SegmentB>> }

InitLine ==
    /\ HookIdle
    /\ pc = "start"
    /\ arg \in [text : LineTexts, path : SegmentPaths]
    /\ res = NoResult

RunFindLine ==
    /\ pc = "start"
    /\ res' = [line |-> findLineNumber(arg.text, arg.path)]
    /\ pc' = "done"
    /\ UNCHANGED <<hookVars, arg>>

NextLine == RunFindLine

SpecLine == InitLine /\ [][NextLine]_vars

\* The key a line of YAML has: the text between matching quotes, or the plain
\* text before a colon that ends the key; none when the line has no such key
KeyOfLine(trimmedLine) ==
    IF trimmedLine = <<>> THEN None
    ELSE IF Head(trimmedLine) \in Quotes
    THEN LET closing == { j \in 2..Len(trimmedLine) : trimmedLine[j] = Head(trimmedLine) }
         IN IF closing = {} THEN None
            ELSE LET j == CHOOSE j \in closing : \A k \in closing : j <= k
                     rest == TrimStart(SubSeq(trimmedLine, j + 1, Len(trimmedLine)))
                 IN IF rest # <<>> /\ Head(rest) = ":"
                    THEN Some(SubSeq(trimmedLine, 2, j - 1)) ELSE None
    ELSE LET colons == { c \in DOMAIN trimmedLine :
                            /\ trimmedLine[c] = ":"
                            /\ c = Len(trimmedLine) \/ trimmedLine[c + 1] = " " }
         IN IF colons = {} THEN None
            ELSE LET c == CHOOSE c \in colons : \A k \in colons : c <= k
                 IN Some(Trim(SubSeq(trimmedLine, 1, c - 1)))

\* Line i is text of a block scalar: a line above ends in | and every line
\* from there to i is blank or indented deeper than it
InBlockScalar(lines, i) ==
    \E j \in 1..(i - 1) :
        /\ lines[j] # <<>>
        /\ lines[j][Len(lines[j])] = "|"
        /\ \A k \in (j + 1)..i :
              TrimStart(lines[k]) = <<>> \/ LeadingSpaces(lines[k]) > LeadingSpaces(lines[j])

\* The scan as it is described: a segment is matched on a line whose key is the
\* segment and whose indentation is not less than that of the last match
RECURSIVE ScanKeys(_, _, _, _, _)
ScanKeys(lines, path, i, currentIndent, pathIndex) ==
    IF i > Len(lines) THEN None
    ELSE LET trimmedLine == TrimStart(lines[i])
             lineIndent == LeadingSpaces(lines[i])
         IN IF trimmedLine = <<>> \/ Head(trimmedLine) = "#"
            THEN ScanKeys(lines, path, i + 1, currentIndent, pathIndex)
            ELSE IF /\ ~InBlockScalar(lines, i)
                    /\ KeyOfLine(trimmedLine) = Some(path[pathIndex])
                    /\ lineIndent >= currentIndent
            THEN IF pathIndex = Len(path) THEN Some(i)
                 ELSE ScanKeys(lines, path, i + 1, lineIndent, pathIndex + 1)
            ELSE ScanKeys(lines, path, i + 1, currentIndent, pathIndex)

\* C27: findLineNumber returns the number of the line that matches the last
\* segment, where the segments are matched in order, top to bottom, each only
\* on a line whose key is the segment, quoted or not, and whose indentation is
\* at least that of the line of the previous match; blank and comment lines are
\* skipped; it returns undefined for an empty path and when only a prefix of
\* the segments is matched.
C27_FindLineNumber ==
    pc = "done" =>
        res.line = IF arg.path = <<>> THEN None
                   ELSE ScanKeys(Split(arg.text, "\n"), arg.path, 1, 0, 1)

-----------------------------------------------------------------------------
(* The hook's saves to localStorage: SpecSave                              *)
(*                                                                          *)
(* arg holds what the hook keeps beside the document: the stored document,  *)
(* lastSaved, the pending timer of debouncedSave with the document it was   *)
(* given, whether the auto-save effect is due (the document state changed   *)
(* since it last ran), and whether the state is the initialDocument object  *)
(* itself: setting the state to the object it already is changes nothing    *)
(* and makes no effect run. The first state is the mounted hook: the effect *)
(* has run once and its timer is pending. A due effect runs before a timer. *)

SavedNow == Some("date")

\* getInitialDocument, for what localStorage holds when the page is opened
getInitialDocument(stored) ==
    IF stored # None
    THEN [document |-> migrateDocument(stored[1]), lastSaved |-> SavedNow]
    ELSE [document |-> InitialDocument, lastSaved |-> None]

StoredAtStart == {None} \cup {Some(d) : d \in {LegacyStored, FullStored, TwoPathsStored}}

InitSave ==
    \E stored \in StoredAtStart :
        /\ document = getInitialDocument(stored).document
        /\ rendered = document
        /\ last = [op |-> "init", pathIndex |-> 0, operationIndex |-> 0, fresh |-> TRUE]
        /\ calls = 0
        /\ pc = "hook"
        /\ arg = [storage |-> stored,
                  lastSaved |-> getInitialDocument(stored).lastSaved,
                  saveTimeout |-> Some(document),
                  effectDue |-> FALSE,
                  isInitialDocument |-> stored = None]
        /\ res = NoResult

\* A handler that edits: setDocument(prev => ...) makes a new object
EditDocument ==
    \E op \in {"addTag", "addSchema"} :
        /\ calls < MaxCalls
        /\ document' = IF op = "addTag" THEN addTag(document) ELSE addSchema(document)
        /\ last' = LastCall(op, 0, 0)
        /\ calls' = calls + 1
        /\ arg' = [arg EXCEPT !.effectDue = TRUE, !.isInitialDocument = FALSE]
        /\ UNCHANGED <<rendered, pc, res>>

\* saveDocument: setItem may throw (quota), then nothing is written
saveDocument(storage, doc, success) == IF success THEN Some(doc) ELSE storage

\* importDocument: the state is set, the document saved at once, lastSaved set
ImportAndSave ==
    \E doc \in ImportableSchemaDocs, success \in BOOLEAN :
        /\ calls < MaxCalls
        /\ document' = importDocument(doc)
        /\ last' = LastCall("importDocument", 0, 0)
        /\ calls' = calls + 1
        /\ arg' = [arg EXCEPT !.storage = saveDocument(@, importDocument(doc), success),
                              !.lastSaved = SavedNow,
                              !.effectDue = TRUE,
                              !.isInitialDocument = FALSE]
        /\ UNCHANGED <<rendered, pc, res>>

\* resetDocument: setDocument(initialDocument); clearDocument(); setLastSaved(null)
ResetAndClear ==
    /\ calls < MaxCalls
    /\ document' = resetDocument
    /\ last' = LastCall("resetDocument", 0, 0)
    /\ calls' = calls + 1
    /\ arg' = [arg EXCEPT !.storage = None,
                          !.lastSaved = None,
                          !.effectDue = @ \/ ~arg.isInitialDocument,
                          !.isInitialDocument = TRUE]
    /\ UNCHANGED <<rendered, pc, res>>

\* The render and the effect on [document]: the cleanup of the last run clears
\* the timer, debouncedSave(document) sets a new one
AutoSaveEffect ==
    /\ arg.effectDue
    /\ rendered' = document
    /\ arg' = [arg EXCEPT !.saveTimeout = Some(document), !.effectDue = FALSE]
    /\ UNCHANGED <<document, last, calls, pc, res>>

\* The timer of debouncedSave, one second later
SaveTimeout ==
    \E success \in BOOLEAN :
        /\ arg.saveTimeout # None
        /\ ~arg.effectDue
        /\ arg' = [arg EXCEPT !.storage = saveDocument(@, arg.saveTimeout[1], success),
                              !.lastSaved = IF success THEN SavedNow ELSE @,
                              !.saveTimeout = None]
        /\ UNCHANGED <<hookVars, pc, res>>

NextSave ==
    \/ EditDocument
    \/ ImportAndSave
    \/ ResetAndClear
    \/ AutoSaveEffect
    \/ SaveTimeout

SpecSave == InitSave /\ [][NextSave]_vars

\* C29: after resetDocument, as long as no handler has edited the document
\* since, nothing is stored and lastSaved is null: the auto-save that the
\* reset's change of the document sets off writes no document back.
C29_ResetStaysCleared ==
    (pc = "hook" /\ last.op = "resetDocument") =>
        /\ arg.storage = None
        /\ arg.lastSaved = None

-----------------------------------------------------------------------------
(* The import dialog and the hook behind it: SpecDialog                    *)
(*                                                                          *)
(* arg holds the dialog's state, the validation timers that handleYamlChange*)
(* has set (all of 300 ms, so they fire in the order they were set; none is *)
(* ever cleared) and the file and clipboard reads under way. A text is what *)
(* yaml.parse does with it. document is the hook's document, which Import   *)
(* replaces.                                                                *)

MaxInputs == 2

TextEmpty == [content |-> "empty"]
TextBlank == [content |-> "blank"]

DialogRaw(openapi, method, parameter) ==
    [openapi |-> openapi,
     info |-> [title |-> TextAB, description |-> JsUndefined, version |-> JsUndefined],
     servers |-> <<>>, tags |-> <<>>,
     paths |-> <<[key |-> TplItemsId,
                  item |-> MapNode(<<[method |-> method,
                                      op |-> RawOperation(ShapedNode(parameter, RawParameter),
                                                          MapNode(RawResponse), None)]>>)]>>,
     components |-> [securitySchemes |-> <<>>, schemas |-> <<>>, others |-> {}],
     security |-> <<>>]

TextOf(outcome) == [content |-> "text", outcome |-> outcome]

TextGet == TextOf([kind |-> "mapping", parsed |-> DialogRaw(DefaultOpenApi, "get", "map")])
TextOptions == TextOf([kind |-> "mapping", parsed |-> DialogRaw(DefaultOpenApi, "options", "map")])

\* The empty text, a text of spaces, a text that is not YAML, two documents
\* that import without error (one with an options operation), a document
\* without openapi and one with a null parameter
DialogTexts ==
    { TextEmpty, TextBlank, TextOf([kind |-> "parseError"]), TextGet, TextOptions,
      TextOf([kind |-> "mapping", parsed |-> DialogRaw(JsUndefined, "get", "map")]),
      TextOf([kind |-> "mapping", parsed |-> DialogRaw(DefaultOpenApi, "get", "null")]) }

\* importYamlDocument(content)
importText(content) == importParseOutcome(content.outcome)

\* handleReset
handleReset(dialog) ==
    [dialog EXCEPT !.yamlContent = TextEmpty, !.errors = <<>>, !.warnings = <<>>,
                   !.isValid = "null", !.parsedDocument = None]

\* validateContent: a blank text clears the result; an importer that throws
\* leaves the state as it was
validateContent(dialog, content) ==
    IF content.content \in {"empty", "blank"}
    THEN [dialog EXCEPT !.errors = <<>>, !.warnings = <<>>, !.isValid = "null",
                        !.parsedDocument = None]
    ELSE IF importText(content) = Thrown THEN dialog
    ELSE [dialog EXCEPT !.errors = importText(content).errors,
                        !.warnings = importText(content).warnings,
                        !.isValid = IF importText(content).success THEN "true" ELSE "false",
                        !.parsedDocument = importText(content).document]

\* disabled={!isValid || !parsedDocument} of the Import button
ImportEnabled == arg.isValid = "true" /\ arg.parsedDocument # None

InitDialog ==
    /\ document = InitialDocument
    /\ rendered = document
    /\ last = [op |-> "init", pathIndex |-> 0, operationIndex |-> 0, fresh |-> TRUE]
    /\ calls = 0
    /\ pc = "hook"
    /\ arg = [yamlContent |-> TextEmpty, errors |-> <<>>, warnings |-> <<>>,
              isValid |-> "null", parsedDocument |-> None,
              timers |-> <<>>, reads |-> <<>>, inputs |-> 0]
    /\ res = NoResult

\* handleYamlChange: the text is set and a timer started
TypeText ==
    \E content \in DialogTexts :
        /\ arg.inputs < MaxInputs
        /\ arg' = [arg EXCEPT !.yamlContent = content,
                              !.timers = Append(@, content),
                              !.inputs = @ + 1]
        /\ UNCHANGED <<hookVars, pc, res>>

\* the timer's callback: validateContent(content) of the text it was set for
ValidationTimer ==
    /\ arg.timers # <<>>
    /\ arg' = [validateContent(arg, Head(arg.timers)) EXCEPT !.timers = Tail(arg.timers)]
    /\ UNCHANGED <<hookVars, pc, res>>

\* handleFileUpload and the Paste button, up to the read they start; a
\* clipboard read that is refused ends in the catch
StartRead ==
    \E content \in DialogTexts, from \in {"file", "clipboard", "refused"} :
        /\ arg.inputs < MaxInputs
        /\ arg' = [arg EXCEPT !.reads = IF from = "refused" THEN @ ELSE Append(@, content),
                              !.inputs = @ + 1]
        /\ UNCHANGED <<hookVars, pc, res>>

\* reader.onload, and the Paste handler after its await:
\* setYamlContent(content); validateContent(content)
FinishRead ==
    \E i \in DOMAIN arg.reads :
        /\ arg' = [validateContent([arg EXCEPT !.yamlContent = arg.reads[i]], arg.reads[i])
                      EXCEPT !.reads = RemoveAt(arg.reads, i)]
        /\ UNCHANGED <<hookVars, pc, res>>

\* The Clear button, disabled={!yamlContent}
ClearDialog ==
    /\ arg.yamlContent # TextEmpty
    /\ arg' = handleReset(arg)
    /\ UNCHANGED <<hookVars, pc, res>>

\* handleClose, from Cancel or from the backdrop; the dialog keeps its state
\* object and may be opened again
CloseDialog ==
    /\ arg # handleReset(arg)
    /\ arg' = handleReset(arg)
    /\ UNCHANGED <<hookVars, pc, res>>

\* handleImport: onImport(parsedDocument) is the hook's importDocument
ImportFromDialog ==
    /\ ImportEnabled
    /\ calls < MaxCalls
    /\ document' = importDocument(arg.parsedDocument[1])
    /\ rendered' = document'
    /\ last' = LastCall("importDocument", 0, 0)
    /\ calls' = calls + 1
    /\ arg' = handleReset(arg)
    /\ UNCHANGED <<pc, res>>

NextDialog ==
    \/ TypeText
    \/ ValidationTimer
    \/ StartRead
    \/ FinishRead
    \/ ClearDialog
    \/ CloseDialog
    \/ ImportFromDialog

SpecDialog == InitDialog /\ [][NextDialog]_vars

\* C26: every operation of the hook's document has one of the five methods
\* get, post, put, patch, delete, also after a document that importYamlDocument
\* made has been committed with importDocument.
C26_MethodsOfTheFive ==
    pc = "hook" =>
        \A i \in DOMAIN document.paths :
            \A j \in DOMAIN document.paths[i].operations :
                document.paths[i].operations[j].method \in Range(HTTP_METHODS)

\* C30: whenever the Import button is enabled, parsedDocument is the document
\* importYamlDocument makes, without error, of the text the dialog holds now:
\* no validation of a text that has been replaced or cleared decides what
\* Import commits.
C30_ImportsCurrentText ==
    (pc = "hook" /\ ImportEnabled) =>
        /\ arg.yamlContent.content = "text"
        /\ importText(arg.yamlContent) # Thrown
        /\ importText(arg.yamlContent).success
        /\ importText(arg.yamlContent).document = arg.parsedDocument
====
